---- MODULE Spec2Model ----
(***************************************************************************)
(* A model of abTEM's ArrayObject (src/abtem/core/array.py) and of the     *)
(* transforms applied to it (src/abtem/transform.py,                       *)
(* src/abtem/core/transform.py).  An array object is modelled by the shape *)
(* of its array, its laziness, its class's base_dims, its ensemble axes    *)
(* metadata list and its metadata dictionary; array values are not         *)
(* modelled.  Every public operation is one action that applies the whole  *)
(* method to a receiver and records the receiver before and after the      *)
(* call, the returned object and the exception raised, if any.             *)
(***************************************************************************)
EXTENDS Integers, Sequences, FiniteSets, TLC

\* ---------------------------------------------------------------- bounds
\* Largest number of ensemble axes of an object that receives a call.
MaxEns == 2
\* Largest length of an array axis.
MaxDim == 2
\* Largest length of an index tuple given to get_items.
MaxItems == 2
\* Largest number of calls made one after the other.
MaxCalls == 2

\* ------------------------------------------------------- python helpers
Min(a, b) == IF a < b THEN a ELSE b

Max(a, b) == IF a > b THEN a ELSE b

\* s[:n] for n >= 0
Take(s, n) == SubSeq(s, 1, Min(n, Len(s)))

\* s[n:] for n >= 0
Drop(s, n) == SubSeq(s, Min(n, Len(s)) + 1, Len(s))

\* list.insert(i, x): the index is clamped, a negative one counts from the end
PyInsert(s, i, x) ==
    LET p == IF i < 0 THEN Max(Len(s) + i, 0) ELSE Min(i, Len(s))
    IN  Take(s, p) \o <<x>> \o Drop(s, p)

\* the sequence without the elements at the 0-based positions in drop
RECURSIVE Without(_, _, _)
Without(s, drop, i) ==
    IF i >= Len(s) THEN <<>>
    ELSE (IF i \in drop THEN <<>> ELSE <<s[i + 1]>>) \o Without(s, drop, i + 1)

\* the set of elements of a sequence
Elems(s) == {s[i] : i \in 1..Len(s)}

\* a dict is a function from keys to values
EmptyDict == [k \in {} |-> 0]

\* {**a, **b}
DictMerge(a, b) ==
    [k \in (DOMAIN a) \cup (DOMAIN b) |-> IF k \in DOMAIN b THEN b[k] ELSE a[k]]

\* seq[start:stop] of Python, step 1; start and stop are <<>> (None) or <<n>>
SliceStart(start, n) ==
    IF start = <<>> THEN 0
    ELSE IF start[1] < 0 THEN Max(n + start[1], 0) ELSE Min(start[1], n)

SliceStop(stop, n) ==
    IF stop = <<>> THEN n
    ELSE IF stop[1] < 0 THEN Max(n + stop[1], 0) ELSE Min(stop[1], n)

SliceLen(start, stop, n) == Max(SliceStop(stop, n) - SliceStart(start, n), 0)

PySlice(s, start, stop) ==
    SubSeq(s, SliceStart(start, Len(s)) + 1, SliceStop(stop, Len(s)))

\* ------------------------------------------------------- axis metadata
UnknownAxis == [kind |-> "UnknownAxis", label |-> "unknown", values |-> <<>>]

OrdinalAxis(label, values) ==
    [kind |-> "OrdinalAxis", label |-> label, values |-> values]

\* AxisMetadata.item_metadata(item): the value of the axis at 0-based index
\* item, keyed by the axis label; an axis without values contributes nothing.
\* Not defined (IndexError) when an OrdinalAxis has no value at that index.
item_metadata_ok(axis, item) ==
    axis.kind = "OrdinalAxis" =>
        (item < Len(axis.values) /\ item >= -Len(axis.values))

item_metadata(axis, item) ==
    IF axis.kind = "OrdinalAxis"
    THEN [k \in {axis.label} |->
            axis.values[IF item < 0 THEN Len(axis.values) + item + 1 ELSE item + 1]]
    ELSE EmptyDict

\* AxisMetadata.__getitem__(item) for a slice or None item: an OrdinalAxis is
\* re-sliced like a plain sequence, any other axis is returned as it is.
axis_getitem(axis, item) ==
    IF axis.kind = "OrdinalAxis" /\ item.kind = "slice"
    THEN OrdinalAxis(axis.label, PySlice(axis.values, item.start, item.stop))
    ELSE axis

\* ------------------------------------------------------- array objects
NoObject ==
    [shape |-> <<>>, base_dims |-> 0, eam |-> <<>>, metadata |-> EmptyDict,
     lazy |-> FALSE]

\* ArrayObject.shape[-_base_dims:]
base_shape(o) == Drop(o.shape, Max(Len(o.shape) - o.base_dims, 0))

\* ArrayObject.shape[:-_base_dims]
ensemble_shape(o) == Take(o.shape, Max(Len(o.shape) - o.base_dims, 0))

\* ------------------------------------------------- the array library
\* numpy / dask take a negative axis relative to the number of dimensions
NormAxis(a, ndim) == IF a < 0 THEN a + ndim ELSE a

\* the outcome of a library reduction (numpy.mean, dask.array.mean, ...) over
\* axes: an axis outside [-ndim, ndim) or a repeated axis is rejected
np_reduce_status(shape, axes) ==
    IF \E i \in 1..Len(axes) : axes[i] < -Len(shape) \/ axes[i] >= Len(shape)
    THEN "AxisError"
    ELSE IF \E i, j \in 1..Len(axes) :
                i # j /\ NormAxis(axes[i], Len(shape)) = NormAxis(axes[j], Len(shape))
    THEN "ValueError"
    ELSE "ok"

\* the shape of the reduced array
np_reduce_shape(shape, axes, keepdims) ==
    LET red == {NormAxis(axes[i], Len(shape)) : i \in 1..Len(axes)}
    IN  IF keepdims
        THEN [i \in 1..Len(shape) |-> IF (i - 1) \in red THEN 1 ELSE shape[i]]
        ELSE Without(shape, red, 0)

\* ------------------------------------------------- results of a call
\* what a call leaves behind: the receiver after the call, the returned
\* object (NoObject when the call raised), whether the returned object is a
\* new instance, the receiver itself or none, and "ok" or the name of the
\* exception raised
Raise(o, exc) == [self |-> o, out |-> NoObject, returned |-> "none", status |-> exc]

\* return self.__class__(**kwargs)
Return(o, result) == [self |-> o, out |-> result, returned |-> "new", status |-> "ok"]

\* return self
ReturnSelf(o) == [self |-> o, out |-> o, returned |-> "self", status |-> "ok"]

\* ------------------------------------------------- ArrayObject methods
\* ArrayObject._is_base_axis(axis)
_is_base_axis(o, axes) ==
    LET base_axes == 0..(Len(base_shape(o)) - 1)
    IN  \E i \in 1..Len(axes) : axes[i] \in base_axes

\* ArrayObject._reduction(reduction_func, axes, keepdims) for axes a tuple of
\* integers; the public mean, sum, std, min and max only pass their own name
\* as reduction_func, which selects the library function of that name
_reduction(o, reduction_func, axes, keepdims) ==
    IF (\E i \in 1..Len(axes) : axes[i] < 0) /\ Len(o.shape) = 0
    THEN Raise(o, "TypeError")
    ELSE
    LET normalized == [i \in 1..Len(axes) |->
                          IF axes[i] >= 0 THEN axes[i] ELSE o.shape[1] + axes[i]]
        ensemble_axes == Min(Len(o.eam), Len(ensemble_shape(o)))
        ensemble_axes_metadata ==
            IF keepdims THEN o.eam
            ELSE Without(Take(o.eam, ensemble_axes), Elems(normalized), 0)
    IN  IF _is_base_axis(o, normalized)
        THEN Raise(o, "RuntimeError")
        ELSE IF np_reduce_status(o.shape, normalized) # "ok"
        THEN Raise(o, np_reduce_status(o.shape, normalized))
        ELSE Return(o, [o EXCEPT
                          !.shape = np_reduce_shape(o.shape, normalized, keepdims),
                          !.eam = ensemble_axes_metadata])

\* ------------------------------------------------- index items
IntItem(j) == [kind |-> "int", i |-> j, start |-> <<>>, stop |-> <<>>]

SliceItem(start, stop) == [kind |-> "slice", i |-> 0, start |-> start, stop |-> stop]

NoneItem == [kind |-> "None", i |-> 0, start |-> <<>>, stop |-> <<>>]

EllipsisItem == [kind |-> "Ellipsis", i |-> 0, start |-> <<>>, stop |-> <<>>]

\* the number of items among items[1..n] that are not None
RECURSIVE NotNoneCount(_, _)
NotNoneCount(items, n) ==
    IF n = 0 THEN 0
    ELSE NotNoneCount(items, n - 1) + (IF items[n].kind = "None" THEN 0 ELSE 1)

\* array[items] of the library for a tuple of integers, slices and None: the
\* k-th item that is not None addresses dimension k; an integer must lie in
\* [-n, n) for a dimension of length n
np_index_status(shape, items) ==
    IF NotNoneCount(items, Len(items)) > Len(shape) THEN "IndexError"
    ELSE IF \E i \in 1..Len(items) :
               /\ items[i].kind = "int"
               /\ LET n == shape[NotNoneCount(items, i)]
                  IN  items[i].i < -n \/ items[i].i >= n
    THEN "IndexError"
    ELSE "ok"

RECURSIVE np_index_dims(_, _, _)
np_index_dims(shape, items, i) ==
    IF i > Len(items) THEN Drop(shape, NotNoneCount(items, Len(items)))
    ELSE (CASE items[i].kind = "None" -> <<1>>
            [] items[i].kind = "int" -> <<>>
            [] OTHER -> <<SliceLen(items[i].start, items[i].stop,
                                   shape[NotNoneCount(items, i)])>>)
         \o np_index_dims(shape, items, i + 1)

np_index_shape(shape, items) == np_index_dims(shape, items, 1)

\* ------------------------------------------------- ArrayObject.get_items
\* items = tuple(slice(item, item + 1) if isinstance(item, int) else item ...)
keepdims_items(items) ==
    [i \in 1..Len(items) |->
        IF items[i].kind = "int"
        THEN SliceItem(<<items[i].i>>, <<items[i].i + 1>>)
        ELSE items[i]]

\* the copy of the ensemble axes metadata with an UnknownAxis inserted at the
\* position of every None item
RECURSIVE expanded_axes_metadata(_, _, _)
expanded_axes_metadata(eam, items, i) ==
    IF i > Len(items) THEN eam
    ELSE expanded_axes_metadata(
            IF items[i].kind = "None" THEN PyInsert(eam, i - 1, UnknownAxis) ELSE eam,
            items, i + 1)

\* the loop over the items: metadata folded from the integer items
RECURSIVE items_metadata(_, _, _)
items_metadata(expanded, items, n) ==
    IF n = 0 THEN EmptyDict
    ELSE IF items[n].kind = "int"
    THEN DictMerge(items_metadata(expanded, items, n - 1),
                   item_metadata(expanded[n], 0))
    ELSE items_metadata(expanded, items, n - 1)

\* the loop over the items: the axes metadata of the slice and None items
RECURSIVE items_axes_metadata(_, _, _)
items_axes_metadata(expanded, items, n) ==
    IF n = 0 THEN <<>>
    ELSE items_axes_metadata(expanded, items, n - 1)
         \o (IF items[n].kind = "int" THEN <<>>
             ELSE <<axis_getitem(expanded[n], items[n])>>)

\* a variant that compares with the number of array dimensions
too_many_indices_for_array(o, items) ==
    NotNoneCount(items, Len(items)) > Len(o.shape)

\* len(tuple(item for item in items if item is not None))
\*     > len(self.ensemble_shape)
too_many_indices(o, items) ==
    NotNoneCount(items, Len(items)) > Len(ensemble_shape(o))

\* a variant that counts only the items that address an input axis
last_indexed_not_none(items) == NotNoneCount(items, Len(items))

\* last_indexed, counted up once for every item of the tuple
last_indexed(items) == Len(items)

\* ArrayObject.get_items(items, keepdims) for items a tuple
get_items(o, items0, keepdims) ==
    LET items == IF keepdims THEN keepdims_items(items0) ELSE items0
        expanded == expanded_axes_metadata(o.eam, items, 1)
    IN  IF \E i \in 1..Len(items) : items[i].kind = "Ellipsis"
        THEN Raise(o, "NotImplementedError")
        ELSE IF too_many_indices(o, items)
        THEN Raise(o, "RuntimeError")
        ELSE IF \E i \in 1..Len(items) :
                   \/ i > Len(expanded)
                   \/ items[i].kind = "int" /\ ~item_metadata_ok(expanded[i], 0)
        THEN Raise(o, "IndexError")
        ELSE IF np_index_status(o.shape, items) # "ok"
        THEN Raise(o, np_index_status(o.shape, items))
        ELSE Return(o, [o EXCEPT
                !.shape = np_index_shape(o.shape, items),
                !.eam = items_axes_metadata(expanded, items, Len(items))
                        \o Drop(expanded, last_indexed(items)),
                !.metadata = DictMerge(o.metadata,
                                       items_metadata(expanded, items, Len(items)))])

\* ------------------------------------------------- ArrayObject.expand_dims
\* abtem.core.utils.normalize_axes(axis, shape): a negative axis counts from
\* the end of shape
normalize_axes(axis, shape) ==
    [i \in 1..Len(axis) |-> IF axis[i] < 0 THEN Len(shape) + axis[i] ELSE axis[i]]

\* for a, am in zip(axis, axis_metadata): ensemble_axes_metadata.insert(a, am)
RECURSIVE insert_each(_, _, _, _)
insert_each(eam, axis, axis_metadata, i) ==
    IF i > Min(Len(axis), Len(axis_metadata)) THEN eam
    ELSE insert_each(PyInsert(eam, axis[i], axis_metadata[i]),
                     axis, axis_metadata, i + 1)

\* [1 if ax in axis else next(shape_it) for ax in range(out_ndim)], from
\* position ax on, with the unread part of the input shape in rest
RECURSIVE expanded_shape(_, _, _, _)
expanded_shape(rest, new, ax, out_ndim) ==
    IF ax >= out_ndim THEN <<>>
    ELSE IF ax \in new THEN <<1>> \o expanded_shape(rest, new, ax + 1, out_ndim)
    ELSE <<Head(rest)>> \o expanded_shape(Tail(rest), new, ax + 1, out_ndim)

\* the module-level expand_dims(a, axis): dask's validate_axis rejects an
\* axis outside [-out_ndim, out_ndim); a repeated axis exhausts shape_it
module_expand_dims_status(shape, axis) ==
    LET out_ndim == Len(axis) + Len(shape)
    IN  IF \E i \in 1..Len(axis) : axis[i] < -out_ndim \/ axis[i] >= out_ndim
        THEN "AxisError"
        ELSE IF Cardinality({NormAxis(axis[i], out_ndim) : i \in 1..Len(axis)})
                    < Len(axis)
        THEN "StopIteration"
        ELSE "ok"

module_expand_dims(shape, axis) ==
    LET out_ndim == Len(axis) + Len(shape)
    IN  expanded_shape(shape, {NormAxis(axis[i], out_ndim) : i \in 1..Len(axis)},
                       0, out_ndim)

\* ArrayObject.expand_dims(axis, axis_metadata) for axis a tuple; no_metadata
\* stands for axis_metadata=None
expand_dims(o, axis0, axis_metadata0, no_metadata) ==
    LET axis_metadata == IF no_metadata
                         THEN [i \in 1..Len(axis0) |-> UnknownAxis]
                         ELSE axis_metadata0
        axis == normalize_axes(axis0, o.shape)
    IN  IF \E i \in 1..Len(axis) :
               axis[i] >= Len(ensemble_shape(o)) + Len(axis)
        THEN Raise(o, "RuntimeError")
        ELSE IF module_expand_dims_status(o.shape, axis) # "ok"
        THEN Raise(o, module_expand_dims_status(o.shape, axis))
        ELSE Return(o, [o EXCEPT
                !.shape = module_expand_dims(o.shape, axis),
                !.eam = insert_each(o.eam, axis, axis_metadata, 1)])

\* ------------------------------------------------- ArrayObject.squeeze
\* a variant that looks at every dimension of the array
squeezable_whole_shape(o) == o.shape

\* shape = self.shape[: -len(self.base_shape)]
squeezable_shape(o) == Take(o.shape, Len(o.shape) - Len(base_shape(o)))

\* ArrayObject.squeeze(axis) for axis a tuple; all_axes stands for axis=None
squeeze(o, axis0, all_axes) ==
    IF Len(o.shape) < Len(base_shape(o))
    THEN ReturnSelf(o)
    ELSE
    LET axis == IF all_axes THEN 0..(Len(o.shape) - 1)
                ELSE Elems(normalize_axes(axis0, o.shape))
        shape == squeezable_shape(o)
        squeezed == {i \in 0..(Len(shape) - 1) : shape[i + 1] = 1 /\ i \in axis}
    IN  Return(o, [o EXCEPT
            !.shape = Without(o.shape, squeezed, 0),
            !.eam = Without(o.eam, squeezed, 0)])

\* ------------------------------------------------- transforms
\* the base axes metadata of an object: one entry per base axis of its class
BaseAxis == [kind |-> "BaseAxis", label |-> "base", values |-> <<>>]

base_axes_metadata(o) == [i \in 1..o.base_dims |-> BaseAxis]

\* CopyMixin._copy_kwargs(exclude): the constructor arguments of the object.
\* Array objects have value semantics: the arguments are copies, so a change
\* made to kwargs["metadata"] does not reach the dictionary the object holds
\* (own_copies); were they the object's own, it would.
_copy_kwargs(o) == [kwargs |-> o, own_copies |-> TRUE]

\* a variant that updates the dictionary of the object itself
metadata_update_of_owner(o, k, d) ==
    [kwargs |-> [k.kwargs EXCEPT !.metadata = DictMerge(@, d)],
     owner |-> [o EXCEPT !.metadata = DictMerge(@, d)]]

\* kwargs["metadata"].update(d): the kwargs after the update and the object
\* the kwargs were taken from
metadata_update(o, k, d) ==
    [kwargs |-> [k.kwargs EXCEPT !.metadata = DictMerge(@, d)],
     owner |-> IF k.own_copies THEN o ELSE [o EXCEPT !.metadata = DictMerge(@, d)]]

\* cls.from_array_and_metadata(array, axes_metadata, metadata): the leading
\* entries of axes_metadata, all but the class's base axes, become the
\* ensemble axes metadata
from_array_and_metadata(o, shape, axes_metadata, metadata) ==
    [o EXCEPT !.shape = shape,
              !.eam = Take(axes_metadata, Max(Len(axes_metadata) - o.base_dims, 0)),
              !.metadata = metadata]

\* ArrayObjectTransform._out_ensemble_axes_metadata(array_object)
_out_ensemble_axes_metadata(t, o) == t.ensemble_axes_metadata \o o.eam

\* ArrayObjectTransform._out_metadata(array_object)
_out_metadata(t, o) == o.metadata

\* the shape of the array a transform calculates: its kernel, of shape
\* ensemble_shape + base shape, broadcast against the array of the object
\* (ReciprocalSpaceMultiplication._calculate_new_array)
_calculate_new_array(t, o) == t.ensemble_shape \o o.shape

\* ArrayObjectTransform._pack_single_output(array_object, new_array)
_pack_single_output(t, o, new_shape) ==
    from_array_and_metadata(o, new_shape,
        _out_ensemble_axes_metadata(t, o) \o base_axes_metadata(o),
        _out_metadata(t, o))

\* core.transform.EnsembleTransform._pack_array(x, array)
_pack_array(t, x, new_shape) ==
    LET updated == metadata_update(x, _copy_kwargs(x), t.metadata)
    IN  Return(updated.owner,
               [updated.kwargs EXCEPT
                    !.shape = new_shape,
                    !.eam = t.ensemble_axes_metadata \o updated.kwargs.eam])

\* apply(array_object) of a transform that is no composite, with a single
\* output: ArrayObjectTransform.apply, and the apply of an EnsembleTransform
\* of core.transform, which packs with _pack_array
member_apply(t, o) ==
    IF t.family = "ArrayObjectTransform"
    THEN Return(o, _pack_single_output(t, o, _calculate_new_array(t, o)))
    ELSE _pack_array(t, o, _calculate_new_array(t, o))

\* hasattr(transform, "transforms") / hasattr(wave_transform, "wave_transforms")
is_composite(t) ==
    t.family \in {"CompositeArrayObjectTransform", "CompositeWaveTransform"}

\* the family whose __add__ and composite a transform belongs to
composite_family(t) ==
    IF t.family \in {"ArrayObjectTransform", "CompositeArrayObjectTransform"}
    THEN "CompositeArrayObjectTransform" ELSE "CompositeWaveTransform"

\* itertools.chain(*[transform.ensemble_shape for transform in transforms])
RECURSIVE chain_ensemble_shape(_)
chain_ensemble_shape(ts) ==
    IF ts = <<>> THEN <<>>
    ELSE Head(ts).ensemble_shape \o chain_ensemble_shape(Tail(ts))

\* itertools.chain(*[transform.ensemble_axes_metadata for transform in transforms])
RECURSIVE chain_ensemble_axes_metadata(_)
chain_ensemble_axes_metadata(ts) ==
    IF ts = <<>> THEN <<>>
    ELSE Head(ts).ensemble_axes_metadata \o chain_ensemble_axes_metadata(Tail(ts))

\* reduce(lambda a, b: {**a, **b}, [transform.metadata for transform in transforms])
RECURSIVE reduce_metadata(_)
reduce_metadata(ts) ==
    IF ts = <<>> THEN EmptyDict
    ELSE DictMerge(Head(ts).metadata, reduce_metadata(Tail(ts)))

\* CompositeArrayObjectTransform(transforms): ensemble_shape and
\* ensemble_axes_metadata chain those of the members; the metadata property
\* is the one inherited from ArrayObjectTransform, {}
CompositeArrayObjectTransform(transforms) ==
    [family |-> "CompositeArrayObjectTransform",
     ensemble_shape |-> chain_ensemble_shape(transforms),
     ensemble_axes_metadata |-> chain_ensemble_axes_metadata(transforms),
     metadata |-> EmptyDict,
     transforms |-> transforms]

\* CompositeWaveTransform(wave_transforms)
CompositeWaveTransform(wave_transforms) ==
    [family |-> "CompositeWaveTransform",
     ensemble_shape |-> chain_ensemble_shape(wave_transforms),
     ensemble_axes_metadata |-> chain_ensemble_axes_metadata(wave_transforms),
     metadata |-> reduce_metadata(wave_transforms),
     transforms |-> wave_transforms]

\* the list __add__ extends by an operand: its members if it has a member
\* list, the operand itself otherwise
added_members(t) == IF is_composite(t) THEN t.transforms ELSE <<t>>

\* a variant that puts the operands themselves into the list
__add___operands_as_members(a, b) ==
    [composite |-> IF composite_family(a) = "CompositeArrayObjectTransform"
                   THEN CompositeArrayObjectTransform(<<a, b>>)
                   ELSE CompositeWaveTransform(<<a, b>>),
     self |-> a, other |-> b]

\* ArrayObjectTransform.__add__(other) / WaveTransform.__add__(other): the
\* composite of a new list, and the operands, which are left as they are
__add__(a, b) ==
    LET transforms == added_members(a) \o added_members(b)
    IN  [composite |-> IF composite_family(a) = "CompositeArrayObjectTransform"
                       THEN CompositeArrayObjectTransform(transforms)
                       ELSE CompositeWaveTransform(transforms),
         self |-> a, other |-> b]

\* s reversed: reversed(self.wave_transforms)
Reversed(s) == [i \in 1..Len(s) |-> s[Len(s) + 1 - i]]

\* for transform in transforms: array_object = transform.apply(array_object)
\* the members applied one after the other, each with the object it was
\* applied to and the object it returned
RECURSIVE apply_in_turn(_, _)
apply_in_turn(ts, o) ==
    IF ts = <<>> THEN <<>>
    ELSE LET output == member_apply(Head(ts), o).out
         IN  <<[member |-> Head(ts), input |-> o, output |-> output]>>
                \o apply_in_turn(Tail(ts), output)

\* CompositeArrayObjectTransform._calculate_new_array(array_object): the
\* steps made; the new array is that of the last object
composite_calculate_new_array(t, o) == apply_in_turn(t.transforms, o)

\* CompositeWaveTransform.apply(waves): the waves the last step returned
composite_wave_apply(t, o) ==
    LET steps == apply_in_turn(Reversed(t.transforms), o)
    IN  [Return(o, steps[Len(steps)].output) EXCEPT !.status = "ok"]
            @@ [applied |-> steps]

\* transform.apply(array_object): ArrayObjectTransform.apply packs the array
\* of the composite's _calculate_new_array with the composite's own
\* _out_ensemble_axes_metadata and _out_metadata
transform_apply(t, o) ==
    IF t.family = "CompositeArrayObjectTransform"
    THEN LET steps == composite_calculate_new_array(t, o)
         IN  Return(o, _pack_single_output(t, o, steps[Len(steps)].output.shape))
                @@ [applied |-> steps]
    ELSE IF t.family = "CompositeWaveTransform"
    THEN composite_wave_apply(t, o)
    ELSE member_apply(t, o)

\* ArrayObject.apply_transform(transform): the blockwise graph of a lazy
\* receiver has the chunks of transform.ensemble_shape + self.shape
apply_transform(o, t) ==
    IF o.lazy
    THEN LET updated == metadata_update(o, _copy_kwargs(o), t.metadata)
         IN  Return(updated.owner,
                    [updated.kwargs EXCEPT
                        !.shape = t.ensemble_shape \o o.shape,
                        !.eam = t.ensemble_axes_metadata \o updated.kwargs.eam])
    ELSE transform_apply(t, o)

\* ArrayObject.ensure_lazy(): chunking does not change shape or metadata
ensure_lazy(o) ==
    IF o.lazy THEN ReturnSelf(o) ELSE Return(o, [o EXCEPT !.lazy = TRUE])

\* a variant that computes into a new object
compute_into_copy(o, profilers) ==
    IF ~o.lazy THEN ReturnSelf(o)
    ELSE Return(o, [o EXCEPT !.lazy = FALSE])

\* ArrayObject.compute(profiler, resource_profiler): _compute puts the
\* computed array into the object itself (wrapper._array = array) and the
\* object is returned, together with the profilers when any was asked for
compute(o, profilers) ==
    IF ~o.lazy THEN ReturnSelf(o)
    ELSE LET computed == [o EXCEPT !.lazy = FALSE]
         IN  [self |-> computed, out |-> computed,
              returned |-> IF profilers THEN "self_and_profilers" ELSE "self",
              status |-> "ok"]

\* ------------------------------------------------- arithmetic
\* the other operand of an arithmetic operator: a number, or an array object
\* that is or is not an instance of the receiver's class
Number == [has_array |-> FALSE, isinstance |-> FALSE, obj |-> NoObject]

ArrayOperand(o, isinstance) ==
    [has_array |-> TRUE, isinstance |-> isinstance, obj |-> o]

\* a variant that leaves the shapes out of the comparison
_check_is_compatible_fields_only(o, other) ==
    IF ~other.isinstance THEN "RuntimeError"
    ELSE IF o.eam # other.obj.eam THEN "RuntimeError"
    ELSE "ok"

\* ArrayObject._check_is_compatible(other): the exception raised, "ok" if
\* none; of the constructor arguments, the array and the metadata are left
\* out of the comparison
_check_is_compatible(o, other) ==
    IF ~other.isinstance THEN "RuntimeError"
    ELSE IF o.shape # other.obj.shape THEN "RuntimeError"
    ELSE IF o.eam # other.obj.eam THEN "RuntimeError"
    ELSE "ok"

InPlaceFuncs == {"__imul__", "__itruediv__", "__isub__", "__iadd__"}

\* what an in-place operator of a numpy array does when the other operand is
\* a dask array is up to the two libraries: it computes, or it raises
LibraryOutcomes == {"ok", "TypeError"}

\* getattr(self.array, func)(other): the exception raised, "ok" if none. A
\* dask array has no in-place operators.
array_operator_status(o, other, func, lib) ==
    IF func \in InPlaceFuncs /\ o.lazy THEN "AttributeError"
    ELSE IF func \in InPlaceFuncs /\ other.has_array /\ other.obj.lazy THEN lib
    ELSE "ok"

\* ArrayObject._arithmetic(other, func): the result is lazy when either
\* array is
_arithmetic(o, other, func, lib) ==
    IF other.has_array /\ _check_is_compatible(o, other) # "ok"
    THEN Raise(o, _check_is_compatible(o, other))
    ELSE IF array_operator_status(o, other, func, lib) # "ok"
    THEN Raise(o, array_operator_status(o, other, func, lib))
    ELSE LET kwargs == _copy_kwargs(o).kwargs
         IN  Return(o, [kwargs EXCEPT
                 !.lazy = o.lazy \/ (other.has_array /\ other.obj.lazy)])

\* ArrayObject._in_place_arithmetic(other, func)
_in_place_arithmetic(o, other, func, lib) ==
    IF o.lazy \/ (other.has_array /\ other.obj.lazy)
    THEN Raise(o, "RuntimeError")
    ELSE _arithmetic(o, other, func, lib)

\* ArrayObject.__imul__, __itruediv__, __isub__, __iadd__
in_place_operator(o, other, func, lib) ==
    IF func = "__itruediv__"
    THEN _arithmetic(o, other, func, lib)
    ELSE _in_place_arithmetic(o, other, func, lib)

\* ------------------------------------------------- inputs
SeqsUpTo(S, n) == UNION {[1..k -> S] : k \in 0..n}

AxisLabels == <<"alpha", "beta", "gamma", "delta">>

\* the values of the ordinal axis at 1-based position k, of length n
AxisValues(k, n) == [i \in 1..n |-> 10 * k + i]

\* ------------------------------------------------- zarr containers
\* the classes of array objects the package exports, by name, each with its
\* number of base axes
Classes ==
    {[name |-> "RealSpaceLineProfiles", _base_dims |-> 1],
     [name |-> "Images", _base_dims |-> 2]}

\* getattr(abtem, t)
abtem_class(t) == CHOOSE c \in Classes : c.name = t

\* axis_to_dict(axis): the class name of the axis under "type" and its fields
axis_to_dict(axis) ==
    [type |-> axis.kind, label |-> axis.label, values |-> axis.values]

\* axis_from_dict(d): the axis of the class named by d["type"]
axis_from_dict(d) ==
    [kind |-> d.type, label |-> d.label, values |-> d.values]

\* ArrayObject._pack_kwargs(kwargs): kwargs without the array
_pack_kwargs(kwargs) ==
    [ensemble_axes_metadata |->
        [i \in 1..Len(kwargs.eam) |-> axis_to_dict(kwargs.eam[i])],
     metadata |-> kwargs.metadata]

\* ArrayObject._unpack_kwargs(attrs)
_unpack_kwargs(attrs) ==
    [ensemble_axes_metadata |->
        [i \in 1..Len(attrs.ensemble_axes_metadata) |->
            axis_from_dict(attrs.ensemble_axes_metadata[i])],
     metadata |-> attrs.metadata]

\* no container at the url
NoContainer == [exists |-> FALSE, arrays |-> EmptyDict, attrs |-> EmptyDict]

\* zarr.open(url, mode="w"): a new, empty group in place of what was there
zarr_open_w == [exists |-> TRUE, arrays |-> EmptyDict, attrs |-> EmptyDict]

\* one turn of the loop of ComputableList.to_zarr for the object at 0-based
\* position i: the array component holds the shape of the array
to_zarr_item(root, has_array0, i) ==
    LET has_array == ensure_lazy(has_array0).out
        kwargs == _copy_kwargs(has_array).kwargs
    IN  [root EXCEPT
            !.arrays = (<<"array", i>> :> has_array.shape) @@ @,
            !.attrs = (<<"kwargs", i>> :> _pack_kwargs(kwargs))
                      @@ (<<"type", i>> :> has_array.cls) @@ @]

RECURSIVE to_zarr_items(_, _, _)
to_zarr_items(root, xs, n) ==
    IF n = 0 THEN root
    ELSE to_zarr_item(to_zarr_items(root, xs, n - 1), xs[n], n - 1)

\* ComputableList.to_zarr(url, compute): the container after the call and
\* what is returned
ComputableList_to_zarr(xs, compute_now) ==
    [root |-> to_zarr_items(zarr_open_w, xs, Len(xs)),
     returned |-> IF compute_now THEN "output" ELSE "computables"]

\* the while loop of from_zarr: type{i} for i = 0, 1, ... up to the first
\* missing key
RECURSIVE read_types(_, _)
read_types(attrs, i) ==
    IF <<"type", i>> \in DOMAIN attrs
    THEN <<attrs[<<"type", i>>]>> \o read_types(attrs, i + 1)
    ELSE <<>>

\* the chunks argument: None, "auto", or a tuple with one entry per dimension
NoChunks == [kind |-> "None", scheme |-> <<>>]

AutoChunks == [kind |-> "auto", scheme |-> <<>>]

\* ("auto",) * num_ensemble_axes + (-1,) * cls._base_dims
auto_chunks(num_ensemble_axes, cls) ==
    [kind |-> "tuple",
     scheme |-> [k \in 1..num_ensemble_axes |-> "auto"]
                \o [k \in 1..cls._base_dims |-> "-1"]]

\* da.from_zarr(url, component, chunks): the library rejects a tuple of chunks
\* whose length is not the number of dimensions of the stored array (the
\* class of the error is not told apart here)
da_from_zarr_status(shape, chunks) ==
    IF chunks.kind = "tuple" /\ Len(chunks.scheme) # Len(shape)
    THEN "ValueError" ELSE "ok"

\* the for loop of from_zarr from the i-th type on (i counts from 1, the
\* component from 0); chunks is the local variable, reassigned when "auto"
RECURSIVE from_zarr_items(_, _, _, _)
from_zarr_items(root, types, i, chunks0) ==
    IF i > Len(types) THEN [status |-> "ok", objects |-> <<>>, chunks |-> <<>>]
    ELSE LET cls == abtem_class(types[i])
             kwargs == _unpack_kwargs(root.attrs[<<"kwargs", i - 1>>])
             num_ensemble_axes == Len(kwargs.ensemble_axes_metadata)
             chunks == IF chunks0.kind = "auto"
                       THEN auto_chunks(num_ensemble_axes, cls) ELSE chunks0
             array == root.arrays[<<"array", i - 1>>]
             st == da_from_zarr_status(array, chunks)
         IN  IF st # "ok"
             THEN [status |-> st, objects |-> <<>>, chunks |-> <<>>]
             ELSE LET rest == from_zarr_items(root, types, i + 1, chunks)
                      object == [cls |-> cls.name, shape |-> array,
                                 base_dims |-> cls._base_dims,
                                 eam |-> kwargs.ensemble_axes_metadata,
                                 metadata |-> kwargs.metadata, lazy |-> TRUE]
                  IN  IF rest.status # "ok" THEN rest
                      ELSE [status |-> "ok",
                            objects |-> <<object>> \o rest.objects,
                            chunks |-> <<chunks>> \o rest.chunks]

\* nothing imported
NoImport == [bare |-> FALSE, objects |-> <<>>, chunks |-> <<>>]

\* from_zarr(url, chunks): the objects imported, the one object itself (bare)
\* when there is exactly one, and the chunks each was loaded with
from_zarr(root, chunks) ==
    LET loaded == from_zarr_items(root, read_types(root.attrs, 0), 1, chunks)
    IN  [status |-> loaded.status,
         imported |-> IF loaded.status = "ok"
                      THEN [bare |-> Len(loaded.objects) = 1,
                            objects |-> loaded.objects, chunks |-> loaded.chunks]
                      ELSE NoImport]

\* ------------------------------------------------- generate_ensemble
\* np.ndindex(*shape): the index tuples of shape, the last index running
\* fastest
RECURSIVE ndindex(_)
ndindex(shape) ==
    IF shape = <<>> THEN << <<>> >>
    ELSE LET rest == ndindex(Tail(shape))
             n == Len(rest)
         IN  [k \in 1..(shape[1] * n) |->
                <<(k - 1) \div n>> \o rest[((k - 1) % n) + 1]]

\* a variant that runs over the whole shape of the array
ensemble_indices_of_array(o) == ndindex(o.shape)

\* np.ndindex(*self.ensemble_shape)
ensemble_indices(o) == ndindex(ensemble_shape(o))

\* ArrayObject.generate_ensemble(keepdims): a new generator, suspended before
\* its first index; it holds the indices still to come and, for the record,
\* the pairs it has yielded
generate_ensemble(o, keepdims) ==
    [self |-> o, keepdims |-> keepdims, it |-> ensemble_indices(o),
     yielded |-> <<>>, status |-> "suspended"]

\* next(generator): the next pair (i, self.get_items(i, keepdims)), or
\* StopIteration after the last index; an exception raised by get_items ends
\* the generator
generator_next(g) ==
    IF g.it = <<>> THEN [g EXCEPT !.status = "StopIteration"]
    ELSE LET i == Head(g.it)
             member == get_items(g.self, [k \in 1..Len(i) |-> IntItem(i[k])],
                                 g.keepdims)
         IN  IF member.status # "ok"
             THEN [g EXCEPT !.status = member.status, !.it = <<>>]
             ELSE [g EXCEPT !.it = Tail(@),
                            !.yielded = Append(@, [index |-> i,
                                                   member |-> member.out])]

\* ------------------------------------------------- axes check and stack
\* ArrayObject.axes_metadata: ensemble_axes_metadata + base_axes_metadata
axes_metadata(o) == o.eam \o base_axes_metadata(o)

\* a variant that looks at the ensemble axes before the last only
_check_axes_metadata_but_last(o) ==
    IF \E k \in 1..Min(Len(o.shape), Len(o.eam) - 1) :
            /\ o.eam[k].kind = "OrdinalAxis"
            /\ Len(o.eam[k].values) # o.shape[k]
    THEN "RuntimeError"
    ELSE "ok"

\* ArrayObject._check_axes_metadata(): the first test compares
\* len(self.shape) with itself; the loop runs over zip(shape, axes_metadata),
\* which ends with the shorter of the two
_check_axes_metadata(o) ==
    IF Len(o.shape) # Len(o.shape) THEN "RuntimeError"
    ELSE IF \E k \in 1..Min(Len(o.shape), Len(axes_metadata(o))) :
               /\ axes_metadata(o)[k].kind = "OrdinalAxis"
               /\ Len(axes_metadata(o)[k].values) # o.shape[k]
    THEN "RuntimeError"
    ELSE "ok"

\* cls(**kwargs) of a concrete class of array objects: the constructor keeps
\* the arguments and, in a class that checks, runs _check_axes_metadata
construct(first, o, checks) ==
    IF checks /\ _check_axes_metadata(o) # "ok"
    THEN Raise(first, _check_axes_metadata(o))
    ELSE Return(first, o)

\* an element of a sequence given as axis_metadata: a string or not
Str(v) == [str |-> TRUE, v |-> v]

NotStr(v) == [str |-> FALSE, v |-> v]

\* the axis_metadata argument of stack: None, a tuple or list, or an axis
\* metadata object
NoAxisMetadata == [kind |-> "None", elements |-> <<>>, axis |-> UnknownAxis]

SequenceArg(elements) ==
    [kind |-> "sequence", elements |-> elements, axis |-> UnknownAxis]

AxisArg(axis) == [kind |-> "AxisMetadata", elements |-> <<>>, axis |-> axis]

\* xp.stack / da.stack of arrays: the library wants arrays of one shape
np_stack_status(arrays) ==
    IF \A i \in 1..Len(arrays) : arrays[i].shape = arrays[1].shape
    THEN "ok" ELSE "ValueError"

\* a variant that puts the new entry last
stacked_axes_metadata_appended(eam, axis_metadata, axis) ==
    Append(eam, axis_metadata)

\* ensemble_axes_metadata.insert(axis, axis_metadata) on the copies of the
\* first array's entries
stacked_axes_metadata(eam, axis_metadata, axis) ==
    PyInsert(eam, axis, axis_metadata)

\* ArrayObject._stack(arrays, axis_metadata, axis)
_stack(arrays, axis_metadata, axis, checks) ==
    IF np_stack_status(arrays) # "ok"
    THEN Raise(arrays[1], np_stack_status(arrays))
    ELSE LET kwargs == _copy_kwargs(arrays[1]).kwargs
         IN  construct(arrays[1],
                [kwargs EXCEPT
                    !.shape = PyInsert(arrays[1].shape, axis, Len(arrays)),
                    !.lazy = \E i \in 1..Len(arrays) : arrays[i].lazy,
                    !.eam = stacked_axes_metadata(kwargs.eam, axis_metadata, axis)],
                checks)

\* stack(arrays, axis_metadata, axis)
stack(arrays, arg, axis, checks) ==
    IF axis > Len(ensemble_shape(arrays[1])) \/ axis < 0
    THEN Raise(arrays[1], "AssertionError")
    ELSE IF arg.kind = "None"
    THEN _stack(arrays, UnknownAxis, axis, checks)
    ELSE IF arg.kind = "sequence"
    THEN IF ~(\A i \in 1..Len(arg.elements) : arg.elements[i].str)
         THEN Raise(arrays[1], "ValueError")
         ELSE _stack(arrays,
                     OrdinalAxis("unknown",
                                 [i \in 1..Len(arg.elements) |-> arg.elements[i].v]),
                     axis, checks)
    ELSE _stack(arrays, arg.axis, axis, checks)

\* ------------------------------------------------- scans
\* lengths are whole numbers of a common unit, so that every product and
\* quotient below is exact
RECURSIVE Sum(_)
Sum(s) == IF s = <<>> THEN 0 ELSE Head(s) + Sum(Tail(s))

\* Grid: the end of an axis of gpts points at distance sampling from start;
\* with endpoint the end is the last point, without it lies one step further
grid_end(start, sampling, gpts, endpoint) ==
    start + sampling * (IF endpoint THEN gpts - 1 ELSE gpts)

\* CustomScan(positions)
CustomScan(positions) == [kind |-> "CustomScan", positions |-> positions]

\* GridScan(start, end, gpts, endpoint), the sampling following from the grid
GridScan(start, gpts, sampling, endpoint) ==
    [kind |-> "GridScan", start |-> start, gpts |-> gpts, sampling |-> sampling,
     endpoint |-> endpoint,
     end |-> [i \in 1..2 |-> grid_end(start[i], sampling[i], gpts[i], endpoint[i])]]

\* LineScan(start, end, gpts, endpoint) for a line along direction, a unit
\* vector; _adjust_sampling gives sampling = extent / (gpts - 1) with endpoint
\* and extent / gpts without
LineScan(start, direction, extent, gpts, endpoint) ==
    [kind |-> "LineScan", start |-> start, direction |-> direction,
     end |-> [i \in 1..2 |-> start[i] + extent * direction[i]],
     gpts |-> gpts, endpoint |-> endpoint,
     sampling |-> extent \div (IF endpoint THEN gpts - 1 ELSE gpts)]

\* get_positions(): np.linspace(start, end, gpts, endpoint) along an axis
linspace(start, sampling, gpts) == [k \in 1..gpts |-> start + (k - 1) * sampling]

\* safe_floor_int(x / sampling) for whole x and sampling
safe_floor_int(x, sampling) == x \div sampling

\* itertools.product(*extents)
product(extents) ==
    [k \in 1..(Len(extents[1]) * Len(extents[2])) |->
        <<extents[1][((k - 1) \div Len(extents[2])) + 1],
          extents[2][((k - 1) % Len(extents[2])) + 1]>>]

\* self.positions[mask] for the bucket of x_extents and y_extents, both
\* half-open
masked(positions, bucket) ==
    LET Inside(p) == /\ p[1] >= bucket[1][1]
                     /\ p[1] < bucket[1][2]
                     /\ p[2] >= bucket[2][1]
                     /\ p[2] < bucket[2][2]
    IN  SelectSeq(positions, Inside)

\* the loop of CustomScan.sort_into_extents over the first n buckets: the
\* counts and the positions put into new_positions so far; assigning more
\* positions than new_positions has left is an error of the library
RECURSIVE custom_sort_loop(_, _, _)
custom_sort_loop(positions, buckets, n) ==
    IF n = 0 THEN [status |-> "ok", chunks |-> <<>>, new_positions |-> <<>>]
    ELSE LET before == custom_sort_loop(positions, buckets, n - 1)
             found == masked(positions, buckets[n])
         IN  IF before.status # "ok" THEN before
             ELSE IF Len(before.new_positions) + Len(found) > Len(positions)
             THEN [before EXCEPT !.status = "ValueError"]
             ELSE [status |-> "ok",
                   chunks |-> Append(before.chunks, Len(found)),
                   new_positions |-> before.new_positions \o found]

\* CustomScan.sort_into_extents(extents)
CustomScan_sort_into_extents(scan, extents) ==
    LET buckets == product(extents)
        sorted == custom_sort_loop(scan.positions, buckets, Len(buckets))
    IN  IF sorted.status # "ok"
        THEN [status |-> sorted.status, scan |-> scan, chunks |-> <<>>]
        ELSE IF Sum(sorted.chunks) # Len(scan.positions)
        THEN [status |-> "AssertionError", scan |-> scan, chunks |-> <<>>]
        ELSE [status |-> "ok", scan |-> CustomScan(sorted.new_positions),
              chunks |-> <<sorted.chunks>>]

\* x_chunks or y_chunks of GridScan.sort_into_extents: axis i, extents of it
grid_chunks(scan, i, extents) ==
    [j \in 1..Len(extents) |->
        LET start_gpt == safe_floor_int(Max(extents[j][1], scan.start[i]),
                                        scan.sampling[i])
            end_gpt == safe_floor_int(Min(extents[j][2], scan.end[i]),
                                      scan.sampling[i])
        IN  Max(end_gpt - start_gpt, 0)]

\* GridScan.sort_into_extents(extents)
GridScan_sort_into_extents(scan, extents) ==
    LET x_chunks == grid_chunks(scan, 1, extents[1])
        y_chunks == grid_chunks(scan, 2, extents[2])
    IN  IF Sum(x_chunks) # scan.gpts[1] \/ Sum(y_chunks) # scan.gpts[2]
        THEN [status |-> "AssertionError", scan |-> scan, chunks |-> <<>>]
        ELSE [status |-> "ok", scan |-> scan, chunks |-> <<x_chunks, y_chunks>>]

\* sort_into_extents(extents) of a scan
sort_into_extents(scan, extents) ==
    CASE scan.kind = "CustomScan" -> CustomScan_sort_into_extents(scan, extents)
      [] scan.kind = "GridScan" -> GridScan_sort_into_extents(scan, extents)
      [] OTHER -> [status |-> "NotImplementedError", scan |-> scan, chunks |-> <<>>]

\* np.cumsum(chunks)
cumsum(chunks) == [i \in 1..Len(chunks) |-> Sum(Take(chunks, i))]

\* a variant without the leading 0
chunk_starts_cumulative(chunks) == cumsum(chunks)

\* (0,) + cumchunks: where each chunk starts; zip stops with the chunks
chunk_starts(chunks) == Take(<<0>> \o cumsum(chunks), Len(chunks))

\* CustomScan.partition_args(chunks)
CustomScan_partition_args(scan, chunks) ==
    <<[i \in 1..Len(chunks[1]) |->
        LET start_chunk == chunk_starts(chunks[1])[i]
        IN  PySlice(scan.positions, <<start_chunk>>, <<start_chunk + chunks[1][i]>>)]>>

\* GridScan.partition_args(chunks)
GridScan_partition_args(scan, chunks) ==
    [i \in 1..2 |->
        [j \in 1..Len(chunks[i]) |->
            LET start == scan.start[i] + chunk_starts(chunks[i])[j] * scan.sampling[i]
            IN  [start |-> start, end |-> start + scan.sampling[i] * chunks[i][j],
                 gpts |-> chunks[i][j], endpoint |-> FALSE]]]

\* LineScan.partition_args(chunks)
LineScan_partition_args(scan, chunks) ==
    <<[i \in 1..Len(chunks[1]) |->
        LET start == [k \in 1..2 |->
                        scan.start[k]
                        + chunk_starts(chunks[1])[i] * scan.sampling * scan.direction[k]]
        IN  LineScan(start, scan.direction, scan.sampling * chunks[1][i],
                     chunks[1][i], FALSE)]>>

\* partition_args(chunks) of a scan
partition_args(scan, chunks) ==
    CASE scan.kind = "CustomScan" -> CustomScan_partition_args(scan, chunks)
      [] scan.kind = "GridScan" -> GridScan_partition_args(scan, chunks)
      [] OTHER -> LineScan_partition_args(scan, chunks)

\* no call on a scan
NoScanned ==
    [op |-> "none", scan |-> CustomScan(<<>>), extents |-> <<>>, chunks |-> <<>>,
     status |-> "new", result |-> <<>>, sorted |-> CustomScan(<<>>)]

\* ------------------------------------------------- CTF parameters
polar_symbols ==
    {"C10", "C12", "phi12",
     "C21", "phi21", "C23", "phi23",
     "C30", "C32", "phi32", "C34", "phi34",
     "C41", "phi41", "C43", "phi43", "C45", "phi45",
     "C50", "C52", "phi52", "C54", "phi54", "C56", "phi56"}

polar_aliases ==
    [k \in {"defocus", "astigmatism", "astigmatism_angle", "coma", "coma_angle",
            "Cs", "C5"} |->
        CASE k = "defocus" -> "C10"
          [] k = "astigmatism" -> "C12"
          [] k = "astigmatism_angle" -> "phi12"
          [] k = "coma" -> "C21"
          [] k = "coma_angle" -> "phi21"
          [] k = "Cs" -> "C30"
          [] OTHER -> "C50"]

\* a variant that writes under the alias itself
aliased_itself(symbol) == symbol

\* polar_aliases[symbol]
aliased(symbol) == polar_aliases[symbol]

\* self._parameters[key] = value: a new key is added to the dictionary
setitem(parameters, key, value) ==
    [k \in DOMAIN parameters \cup {key} |-> IF k = key THEN value ELSE parameters[k]]

\* the loop of CTFBase.set_parameters over parameters.items(), in the order
\* of the dictionary; what was set before a key that raises stays set
RECURSIVE set_parameters_loop(_, _)
set_parameters_loop(table, items) ==
    IF items = <<>> THEN [status |-> "ok", parameters |-> table]
    ELSE LET symbol == Head(items)[1]
             value == Head(items)[2]
         IN  IF symbol \in DOMAIN table
             THEN set_parameters_loop(setitem(table, symbol, value), Tail(items))
             ELSE IF symbol \in DOMAIN polar_aliases
             THEN set_parameters_loop(setitem(table, aliased(symbol), value),
                                      Tail(items))
             ELSE [status |-> "RuntimeError", parameters |-> table]

\* CTFBase.set_parameters(parameters, parametrization)
set_parameters(table, items, parametrization) ==
    IF parametrization # "polar"
    THEN [status |-> "NotImplementedError", parameters |-> table]
    ELSE set_parameters_loop(table, items)

\* the setter made by parametrization_property(key)
parametrization_property_setter(table, key, value) == setitem(table, key, value)

\* self._parameters = dict(zip(polar_symbols, [0.] * len(polar_symbols)))
NoCTF ==
    [parameters |-> [k \in polar_symbols |-> 0], before |-> [k \in polar_symbols |-> 0],
     op |-> "none", items |-> <<>>, parametrization |-> "polar", status |-> "new"]

\* ------------------------------------------------- set_ensemble_axes_metadata
\* ArrayObject.set_ensemble_axes_metadata(axes_metadata, axis): the entry is
\* assigned into the list the object holds (the property returns the list
\* itself), then the axes are checked; the object is returned
set_ensemble_axes_metadata(o, new, axis) ==
    IF axis >= Len(o.eam) \/ axis < -Len(o.eam)
    THEN Raise(o, "IndexError")
    ELSE LET installed == [o EXCEPT !.eam[NormAxis(axis, Len(o.eam)) + 1] = new]
         IN  IF _check_axes_metadata(installed) # "ok"
             THEN Raise(installed, _check_axes_metadata(installed))
             ELSE [self |-> installed, out |-> installed, returned |-> "self",
                   status |-> "ok"]

\* ------------------------------------------------- partition arguments
\* a member's _partition_args(chunks): one block per ensemble axis, the
\* block of axis k holding one slice of the axis's distribution for every
\* entry of chunks[k]
member_partition_args(t, chunks) ==
    [k \in 1..Min(Len(t.ensemble_shape), Len(chunks)) |->
        [transform |-> t, axis |-> k - 1, chunks |-> chunks[k]]]

\* CompositeArrayObjectTransform._partition_args and
\* CompositeWaveTransform._partition_args on validated chunks: the loop over
\* the members, each given chunks[start:stop]; a member that is a composite
\* partitions its own members in the same way
RECURSIVE partition_members(_, _, _)
partition_members(transforms, chunks, start) ==
    IF transforms = <<>> THEN <<>>
    ELSE LET transform == Head(transforms)
             stop == start + Len(transform.ensemble_shape)
             sliced == PySlice(chunks, <<start>>, <<stop>>)
         IN  (IF is_composite(transform)
              THEN partition_members(transform.transforms, sliced, 0)
              ELSE member_partition_args(transform, sliced))
                \o partition_members(Tail(transforms), chunks, stop)

\* transform._partition_args(chunks)
_partition_args(t, chunks) ==
    IF is_composite(t) THEN partition_members(t.transforms, chunks, 0)
    ELSE member_partition_args(t, chunks)

\* a variant in which every member takes its arguments from the first one on
arg_indices_from_zero(i, wave_transform) ==
    [k \in 1..Len(wave_transform.ensemble_shape) |-> k - 1]

\* tuple(range(i, i + len(wave_transform.ensemble_shape)))
arg_indices(i, wave_transform) ==
    [k \in 1..Len(wave_transform.ensemble_shape) |-> i + k - 1]

\* the loop of _from_partitioned_args over the members: the pairs of a
\* member's reconstructor and its argument indices
RECURSIVE partials(_, _)
partials(transforms, i) ==
    IF transforms = <<>> THEN <<>>
    ELSE LET wave_transform == Head(transforms)
             indices == arg_indices(i, wave_transform)
         IN  <<[partial |->
                    IF is_composite(wave_transform)
                    THEN [family |-> wave_transform.family,
                          transform |-> wave_transform,
                          partials |-> partials(wave_transform.transforms, 0)]
                    ELSE [family |-> wave_transform.family,
                          transform |-> wave_transform, partials |-> <<>>],
                  arg_indices |-> indices]>>
                \o partials(Tail(transforms), i + Len(indices))

\* transform._from_partitioned_args(): partial(self._partial, partials=...)
\* of a CompositeArrayObjectTransform, partial(self.ctf, partials=...) of a
\* CompositeWaveTransform; a member's reconstructor remembers the member
_from_partitioned_args(t) ==
    [family |-> t.family, transform |-> t,
     partials |-> IF is_composite(t) THEN partials(t.transforms, 0) ELSE <<>>]

\* [args[i] for i in p[1]]: an index past the end raises IndexError
picked(args, indices) ==
    [k \in 1..Len(indices) |->
        IF indices[k] < Len(args) THEN args[indices[k] + 1] ELSE "IndexError"]

\* the call of a reconstructor: _partial(*args, partials) and
\* ctf(*args, partials) call p[0] with the arguments at p[1] for every p and
\* return the composite of the results; a member's reconstructor returns
\* the member restricted to its arguments
RECURSIVE call_partial(_, _)
call_partial(p, args) ==
    IF is_composite(p.transform)
    THEN [family |-> p.family, of |-> p.transform, args |-> args,
          transforms |->
            [j \in 1..Len(p.partials) |->
                call_partial(p.partials[j].partial,
                             picked(args, p.partials[j].arg_indices))]]
    ELSE [family |-> p.family, of |-> p.transform, args |-> args,
          transforms |-> <<>>]

\* block.item() of the block at index b of a 1-d array of slices
block_item(block, position, b) ==
    [transform |-> block.transform, axis |-> block.axis, slice |-> b,
     position |-> position]

\* ------------------------------------------------- the lazy apply_transform
\* array.blocks.shape / array.numblocks: the number of chunks along every axis
numblocks(chunks) == [i \in 1..Len(chunks) |-> Len(chunks[i])]

\* a variant that numbers the blocks in column-major order
arange_reshape_column_major(block_shape) ==
    LET nd == ndindex(Reversed(block_shape))
    IN  [index \in Elems(ndindex(block_shape)) |->
            (CHOOSE k \in 1..Len(nd) : Reversed(nd[k]) = index) - 1]

\* np.arange(np.prod(block_shape)).reshape(block_shape): the k-th number goes
\* to the k-th index in row-major order
arange_reshape(block_shape) ==
    LET nd == ndindex(block_shape)
    IN  [index \in Elems(nd) |-> (CHOOSE k \in 1..Len(nd) : nd[k] = index) - 1]

\* da.from_array(block_id, chunks=1): one block for every element
from_array_chunks_1(a) ==
    [index \in DOMAIN a |-> [kind |-> "block_id", item |-> a[index]]]

\* the dask array of the receiver: one block for every index of its block grid
array_blocks_of(chunks) ==
    [index \in Elems(ndindex(numblocks(chunks))) |->
        [kind |-> "array", index |-> index,
         shape |-> [i \in 1..Len(chunks) |-> chunks[i][index[i] + 1]]]]

\* axis._to_blocks((c,)): a 1-d array with one block for every chunk of the
\* axis, holding the axis metadata of that chunk
_to_blocks(axis, c) ==
    [index \in {<<k - 1>> : k \in 1..Len(c)} |->
        [kind |-> "axis", item |-> [axis |-> axis, slice |-> index[1]]]]

\* a block of partition arguments as a 1-d array with one block for every
\* chunk, at the position it has among the partition arguments
partition_blocks(block, position) ==
    [index \in {<<k - 1>> : k \in 1..Len(block.chunks)} |->
        [kind |-> "transform", item |-> block_item(block, position, index[1])]]

\* da.blockwise(func, symbols, array, indices, ..., align_arrays=False): one
\* task for every index of the output block grid, its arguments the blocks
\* of the arrays at the output coordinates their indices name
blockwise(symbol_numblocks, arrays) ==
    [key \in Elems(ndindex(symbol_numblocks)) |->
        [p \in 1..Len(arrays) |->
            arrays[p].array[[q \in 1..Len(arrays[p].ind) |->
                                key[arrays[p].ind[q] + 1]]]]]

\* the lazy branch of ArrayObject.apply_transform: the tasks of the blockwise
\* graph over the partition arguments of the transform, the axes metadata,
\* the array and the block ids
apply_transform_tasks(o, array_chunks, t, chunks) ==
    LET partition == _partition_args(t, chunks)
        transform_blocks ==
            [i \in 1..Len(partition) |->
                [array |-> partition_blocks(partition[i], i - 1), ind |-> <<i - 1>>]]
        num_axes == Min(Len(o.eam), Len(array_chunks))
        axes_blocks ==
            [i \in 1..num_axes |->
                [array |-> _to_blocks(o.eam[i], array_chunks[i]),
                 ind |-> <<Len(t.ensemble_shape) + i - 1>>]]
        array_ind == [i \in 1..Len(o.shape) |-> Len(t.ensemble_shape) + i - 1]
        array_blocks == <<[array |-> array_blocks_of(array_chunks), ind |-> array_ind]>>
        block_shape == numblocks(array_chunks)
        block_id == arange_reshape(block_shape)
        block_id_blocks == <<[array |-> from_array_chunks_1(block_id), ind |-> array_ind]>>
    IN  blockwise(numblocks(chunks) \o numblocks(array_chunks),
                  transform_blocks \o axes_blocks \o array_blocks \o block_id_blocks)

\* ArrayObject._apply_wave_transform(*args, waves_partial, transform_partial,
\* transform_ensemble_shape): what the task of one block evaluates
_apply_wave_transform(args, transform_partial, transform_ensemble_shape, apply_parameters) ==
    LET n == Len(transform_ensemble_shape)
        transform ==
            call_partial(transform_partial,
                         [k \in 1..Min(n, Len(args)) |-> args[k].item])
        ensemble_axes_metadata ==
            [k \in 1..Max(Len(args) - 2 - n, 0) |-> args[n + k].item]
        array == args[Len(args) - 1]
        block_id == args[Len(args)].item
        waves == [array |-> array, ensemble_axes_metadata |-> ensemble_axes_metadata]
    IN  [transform |-> transform, waves |-> waves,
         kwargs |-> IF "block_id" \in apply_parameters
                    THEN [name \in {"block_id"} |-> block_id]
                    ELSE EmptyDict]

\* the base shapes of the classes modelled: one and two base axes, the latter
\* with a base axis of length one
BaseShapes == {<<MaxDim>>, <<1, MaxDim>>}

\* an object as its constructor leaves it: one metadata entry per ensemble
\* axis, every OrdinalAxis with as many values as its axis is long
MakeObject(ens, ordinal, base, lazy) ==
    [shape |-> ens \o base,
     base_dims |-> Len(base),
     eam |-> [k \in 1..Len(ens) |->
                 IF k \in ordinal THEN OrdinalAxis(AxisLabels[k], AxisValues(k, ens[k]))
                 ELSE UnknownAxis],
     metadata |-> [k \in {"energy"} |-> 100],
     lazy |-> lazy]

InitObjects ==
    {MakeObject(ens, ordinal, base, lazy) :
        ens \in SeqsUpTo(1..MaxDim, MaxEns), ordinal \in SUBSET (1..MaxEns),
        base \in BaseShapes, lazy \in BOOLEAN}

\* the operands tried with a receiver: a number, the receiver's like, and
\* objects that differ from it in class, laziness, metadata, ensemble axes
\* metadata or shape
Operands(r) ==
    {Number,
     ArrayOperand(r, TRUE),
     ArrayOperand(r, FALSE),
     ArrayOperand([r EXCEPT !.lazy = ~@], TRUE),
     ArrayOperand([r EXCEPT !.metadata = [k \in {"energy"} |-> 200]], TRUE),
     ArrayOperand([r EXCEPT !.eam = [k \in 1..Len(r.eam) |->
                                        OrdinalAxis("other", r.eam[k].values)]], TRUE),
     ArrayOperand([r EXCEPT !.shape = <<MaxDim + 1>> \o Drop(r.shape, 1)], TRUE)}

ArithmeticFuncs == {"__add__", "__sub__", "__mul__", "__truediv__", "__pow__"}

ReductionFuncs == {"mean", "sum", "std", "min", "max"}

ReductionAxes ==
    {<<a>> : a \in (-(MaxEns + 1))..(MaxEns + 1)}
        \cup {<<0, 1>>, <<1, 0>>, <<1, 1>>, <<1, 2>>}

ItemValues ==
    {IntItem(j) : j \in (-MaxDim)..MaxDim}
        \cup {SliceItem(<<>>, <<>>), SliceItem(<<1>>, <<>>), SliceItem(<<>>, <<-1>>)}
        \cup {NoneItem, EllipsisItem}

ItemTuples == SeqsUpTo(ItemValues, MaxItems) \ {<<>>}

ExpandAxes ==
    {<<a>> : a \in -1..(MaxEns + 1)}
        \cup {<<a, b>> : a \in 0..MaxEns, b \in 0..MaxEns}

\* the metadata supplied for the k-th new axis
NewAxis(k) == OrdinalAxis(IF k = 1 THEN "new1" ELSE "new2", <<70 + k>>)

SqueezeAxes == {<<a>> : a \in -1..(MaxEns + 1)} \cup {<<0, 1>>}

TransformAxis == OrdinalAxis("tau", [i \in 1..MaxDim |-> 90 + i])

Transforms ==
    {[family |-> f, ensemble_shape |-> es.shape,
      ensemble_axes_metadata |-> es.eam, metadata |-> md, transforms |-> <<>>] :
        f \in {"ArrayObjectTransform", "WaveTransform"},
        es \in {[shape |-> <<>>, eam |-> <<>>],
                [shape |-> <<MaxDim>>, eam |-> <<TransformAxis>>]},
        md \in {EmptyDict, [k \in {"defocus"} |-> 5], [k \in {"energy"} |-> 200]}}

\* a second axis a transform adds, of length one
SecondTransformAxis == OrdinalAxis("sigma", <<95>>)

\* the members of the composites: one with the axis tau, one with the axis
\* sigma and metadata, one without an axis
Member(f, k) ==
    [family |-> f,
     ensemble_shape |-> CASE k = 1 -> <<MaxDim>> [] k = 2 -> <<1>> [] OTHER -> <<>>,
     ensemble_axes_metadata |->
        CASE k = 1 -> <<TransformAxis>> [] k = 2 -> <<SecondTransformAxis>>
          [] OTHER -> <<>>,
     metadata |-> CASE k = 1 -> EmptyDict [] k = 2 -> [x \in {"defocus"} |-> 5]
                    [] OTHER -> [x \in {"energy"} |-> 200],
     transforms |-> <<>>]

MemberPairs == {<<1, 2>>, <<2, 1>>, <<1, 3>>, <<3, 2>>}

CompositeTransforms ==
    {CompositeArrayObjectTransform(
        <<Member("ArrayObjectTransform", p[1]), Member("ArrayObjectTransform", p[2])>>) :
            p \in MemberPairs}
    \cup
    {CompositeWaveTransform(
        <<Member("WaveTransform", p[1]), Member("WaveTransform", p[2])>>) :
            p \in MemberPairs}

NoTransform ==
    [family |-> "none", ensemble_shape |-> <<>>, ensemble_axes_metadata |-> <<>>,
     metadata |-> EmptyDict, transforms |-> <<>>]

\* ------------------------------------------------- state
VARIABLES
    root,    \* the zarr container at the url
    written, \* the list of objects last written to the container
    imported,\* what the last from_zarr returned
    generators, \* the generators made by generate_ensemble, in turn
    ctf, \* the parameter table of a CTF and the last call on it
    partitioned, \* the last partition of a transform: its blocks and what was rebuilt from them
    graph, \* the tasks the last lazy apply_transform made and the task evaluated last
    scanned, \* the last call on a scan: the scan, the method, its arguments, its result
    plus,    \* the last sum of transforms: operands, before and after, and result
    applied, \* the members a composite applied in the last call, in turn
    self,    \* the receiver of the last call, as it is after the call
    old,     \* the receiver of the last call, as it was before the call
    out,     \* the object the last call returned, NoObject if none
    returned,\* "new" or "self": what the returned object is; "none" if none
    status,  \* "ok", or the exception the last call raised; "new" before any call
    call,    \* the last call: the method and its arguments
    calls    \* the number of calls made so far

vars ==
    <<graph, partitioned, ctf, root, written, imported, generators, scanned, plus, applied, self, old, out, returned,
      status, call, calls>>

\* the state of the container and of the generators
kept == <<root, written, imported, generators, scanned, ctf, partitioned, graph>>

NoPartition ==
    [transform |-> NoTransform, chunks |-> <<>>, blocks |-> <<>>,
     args |-> <<>>, rebuilt |-> NoTransform]

NoTasks ==
    [receiver |-> NoObject, array_chunks |-> <<>>, transform |-> NoTransform,
     chunks |-> <<>>, apply_parameters |-> {}, tasks |-> <<>>, key |-> <<>>,
     evaluated |-> FALSE,
     result |-> [transform |-> NoTransform, waves |-> NoObject, kwargs |-> EmptyDict]]

NoPlus == [operands |-> <<>>, after |-> <<>>, result |-> NoTransform]

NoCall ==
    [op |-> "none", axes |-> <<>>, keepdims |-> FALSE, func |-> "", items |-> <<>>,
     axis_metadata |-> <<>>, none |-> FALSE, transform |-> NoTransform,
     other |-> Number, profilers |-> FALSE, chunks |-> NoChunks, compute |-> FALSE,
     arrays |-> <<>>, axis |-> 0, arg |-> NoAxisMetadata, checks |-> FALSE]

Init ==
    /\ self \in InitObjects
    /\ old = self
    /\ out = NoObject
    /\ returned = "none"
    /\ status = "new"
    /\ call = NoCall
    /\ calls = 0
    /\ applied = <<>>
    /\ plus = NoPlus
    /\ root = NoContainer
    /\ written = <<>>
    /\ imported = NoImport
    /\ generators = <<>>
    /\ graph = NoTasks
    /\ partitioned = NoPartition
    /\ ctf = NoCTF
    /\ scanned = NoScanned

Idle == call.op = "none"

Calls(r, c, result) ==
    /\ Idle
    /\ calls < MaxCalls
    /\ r = self
    /\ calls' = calls + 1
    /\ old' = r
    /\ self' = result.self
    /\ out' = result.out
    /\ returned' = result.returned
    /\ status' = result.status
    /\ call' = c
    /\ applied' = IF "applied" \in DOMAIN result THEN result.applied ELSE <<>>
    /\ UNCHANGED <<plus, kept>>

Reduction ==
    \E r \in {self}, f \in ReductionFuncs, axes \in ReductionAxes, kd \in BOOLEAN :
        Calls(r, [NoCall EXCEPT !.op = "_reduction", !.func = f, !.axes = axes,
                                !.keepdims = kd],
              _reduction(r, f, axes, kd))

GetItems ==
    \E r \in {self}, items \in ItemTuples, kd \in BOOLEAN :
        Calls(r, [NoCall EXCEPT !.op = "get_items", !.items = items, !.keepdims = kd],
              get_items(r, items, kd))

ExpandDims ==
    \E r \in {self}, axis \in ExpandAxes, none \in BOOLEAN :
        LET am == IF none THEN <<>> ELSE [k \in 1..Len(axis) |-> NewAxis(k)]
        IN  Calls(r, [NoCall EXCEPT !.op = "expand_dims", !.axes = axis,
                                    !.axis_metadata = am, !.none = none],
                  expand_dims(r, axis, am, none))

Squeeze ==
    \E r \in {self}, axis \in SqueezeAxes \cup {<<>>} :
        Calls(r, [NoCall EXCEPT !.op = "squeeze", !.axes = axis, !.none = (axis = <<>>)],
              squeeze(r, axis, axis = <<>>))

EnsureLazy ==
    \E r \in {self} :
        Calls(r, [NoCall EXCEPT !.op = "ensure_lazy"], ensure_lazy(r))

Compute ==
    \E r \in {self}, profilers \in BOOLEAN :
        Calls(r, [NoCall EXCEPT !.op = "compute", !.profilers = profilers],
              compute(r, profilers))

ApplyTransform ==
    \E r \in {self}, t \in Transforms \cup CompositeTransforms :
        Calls(r, [NoCall EXCEPT !.op = "apply_transform", !.transform = t],
              apply_transform(r, t))

Arithmetic ==
    \E r \in {self}, other \in Operands(self), f \in ArithmeticFuncs :
        Calls(r, [NoCall EXCEPT !.op = "_arithmetic", !.func = f, !.other = other],
              _arithmetic(r, other, f, "ok"))

InPlaceArithmetic ==
    \E r \in {self}, other \in Operands(self), f \in InPlaceFuncs,
       lib \in LibraryOutcomes :
        Calls(r, [NoCall EXCEPT !.op = "_in_place_arithmetic", !.func = f,
                                !.other = other],
              in_place_operator(r, other, f, lib))

\* the caller goes on with the receiver of the last call or, while it has at
\* most MaxEns ensemble axes, with the object the call returned
Receivers ==
    {self} \cup (IF status = "ok" /\ Len(out.eam) <= MaxEns
                    /\ Len(ensemble_shape(out)) <= MaxEns
                 THEN {out} ELSE {})

Continue ==
    /\ ~Idle
    /\ calls < MaxCalls
    /\ UNCHANGED calls
    /\ \E r \in Receivers :
        /\ self' = r
        /\ old' = r
        /\ out' = NoObject
        /\ returned' = "none"
        /\ status' = "new"
        /\ call' = NoCall
        /\ applied' = <<>>
    /\ UNCHANGED <<plus, kept>>

Next ==
    \/ Continue
    \/ Reduction
    \/ GetItems
    \/ ExpandDims
    \/ Squeeze
    \/ EnsureLazy
    \/ Compute
    \/ ApplyTransform
    \/ Arithmetic
    \/ InPlaceArithmetic

Spec == Init /\ [][Next]_vars

\* ------------------------------------------------- sums of transforms
\* the operands of +: transforms, composites of them, and a composite made
\* from a list that holds a composite
AddOperands(f) ==
    LET m(k) == Member(f, k)
        c(ts) == IF f = "ArrayObjectTransform"
                 THEN CompositeArrayObjectTransform(ts)
                 ELSE CompositeWaveTransform(ts)
    IN  {m(1), m(2), m(3), c(<<m(1), m(2)>>), c(<<m(2), m(3)>>),
         c(<<c(<<m(1), m(2)>>), m(3)>>)}

AddInit ==
    /\ self = MakeObject(<<>>, {}, <<MaxDim>>, FALSE)
    /\ old = self
    /\ out = NoObject
    /\ returned = "none"
    /\ status = "new"
    /\ call = NoCall
    /\ calls = 0
    /\ applied = <<>>
    /\ plus = NoPlus
    /\ root = NoContainer
    /\ written = <<>>
    /\ imported = NoImport
    /\ generators = <<>>
    /\ graph = NoTasks
    /\ partitioned = NoPartition
    /\ ctf = NoCTF
    /\ scanned = NoScanned

\* a + b
Add ==
    /\ plus = NoPlus
    /\ \E f \in {"ArrayObjectTransform", "WaveTransform"} :
        \E a \in AddOperands(f), b \in AddOperands(f) :
            LET sum == __add__(a, b)
            IN  plus' = [operands |-> <<a, b>>, after |-> <<sum.self, sum.other>>,
                         result |-> sum.composite]
    /\ UNCHANGED <<applied, self, old, out, returned, status, call, calls, kept>>

\* (a + b) + c
AddThird ==
    /\ Len(plus.operands) = 2
    /\ \E c \in AddOperands(IF composite_family(plus.result) = "CompositeArrayObjectTransform"
                              THEN "ArrayObjectTransform" ELSE "WaveTransform") :
            LET sum == __add__(plus.result, c)
            IN  plus' = [operands |-> plus.operands \o <<c>>,
                         after |-> plus.after \o <<sum.other>>,
                         result |-> sum.composite]
    /\ UNCHANGED <<applied, self, old, out, returned, status, call, calls, kept>>

AddNext ==
    \/ Add
    \/ AddThird

AddSpec == AddInit /\ [][AddNext]_vars

\* ------------------------------------------------- writing and reading
\* the objects written: of either class, with no, one or two ensemble axes
ZarrObjects ==
    {MakeObject(ens, 1..Len(ens), IF c._base_dims = 1 THEN <<MaxDim>> ELSE <<1, MaxDim>>,
                lazy) @@ [cls |-> c.name] :
        ens \in {<<>>, <<MaxDim>>, <<1, MaxDim>>}, c \in Classes, lazy \in BOOLEAN}

ZarrInit ==
    /\ self = NoObject
    /\ old = self
    /\ out = NoObject
    /\ returned = "none"
    /\ status = "new"
    /\ call = NoCall
    /\ calls = 0
    /\ applied = <<>>
    /\ plus = NoPlus
    /\ root = NoContainer
    /\ written = <<>>
    /\ imported = NoImport
    /\ generators = <<>>
    /\ graph = NoTasks
    /\ partitioned = NoPartition
    /\ ctf = NoCTF
    /\ scanned = NoScanned

\* ComputableList(xs).to_zarr(url, compute); ArrayObject.to_zarr writes the
\* list of the one object
ToZarr ==
    /\ calls < MaxCalls + 1
    /\ \E xs \in SeqsUpTo(ZarrObjects, MaxItems), compute_now \in BOOLEAN :
        LET result == ComputableList_to_zarr(xs, compute_now)
        IN  /\ root' = result.root
            /\ written' = xs
            /\ returned' = result.returned
            /\ call' = [NoCall EXCEPT !.op = "to_zarr", !.compute = compute_now]
    /\ imported' = NoImport
    /\ status' = "ok"
    /\ calls' = calls + 1
    /\ UNCHANGED <<plus, applied, self, old, out, generators, scanned, ctf, partitioned, graph>>

\* from_zarr(url, chunks) of a container that was written; the class method
\* ArrayObject.from_zarr passes chunks = "auto" unless told otherwise
FromZarr ==
    /\ calls < MaxCalls + 1
    /\ root.exists
    /\ \E chunks \in {NoChunks, AutoChunks} :
        LET result == from_zarr(root, chunks)
        IN  /\ imported' = result.imported
            /\ status' = result.status
            /\ returned' = IF result.status = "ok" THEN "new" ELSE "none"
            /\ call' = [NoCall EXCEPT !.op = "from_zarr", !.chunks = chunks]
    /\ calls' = calls + 1
    /\ UNCHANGED <<plus, applied, self, old, out, generators, root, written, scanned, ctf, partitioned, graph>>

ZarrNext ==
    \/ ToZarr
    \/ FromZarr

ZarrSpec == ZarrInit /\ [][ZarrNext]_vars

\* ------------------------------------------------- ensembles
\* x.generate_ensemble(keepdims)
GenerateEnsemble ==
    /\ Len(generators) < MaxCalls
    /\ \E keepdims \in BOOLEAN :
        generators' = Append(generators, generate_ensemble(self, keepdims))
    /\ UNCHANGED <<plus, applied, self, old, out, returned, status, call, calls,
                   root, written, imported, scanned, ctf, partitioned, graph>>

\* next(g) of a generator that has not ended
NextMember ==
    /\ \E k \in 1..Len(generators) :
        /\ generators[k].status = "suspended"
        /\ generators' = [generators EXCEPT ![k] = generator_next(@)]
    /\ UNCHANGED <<plus, applied, self, old, out, returned, status, call, calls,
                   root, written, imported, scanned, ctf, partitioned, graph>>

EnsembleNext ==
    \/ GenerateEnsemble
    \/ NextMember

EnsembleSpec == Init /\ [][EnsembleNext]_vars

\* ------------------------------------------------- stacking
\* the largest number of arrays stacked
MaxStack == 3

\* the lists stacked: a first array and arrays of its shape that differ from
\* it in the labels of their axes, or a list with an array of another shape
StackLists ==
    UNION {
        LET like == [first EXCEPT !.eam = [k \in 1..Len(first.eam) |->
                                            [first.eam[k] EXCEPT !.label = "other"]]]
            longer == [first EXCEPT !.shape = Take(first.shape, Len(first.shape) - 1)
                                              \o <<MaxDim + 1>>]
        IN  {[i \in 1..n |-> IF i = 1 THEN first ELSE like] : n \in 1..MaxStack}
            \cup {<<first, longer>>}
        : first \in InitObjects}

\* the values of axis_metadata tried
StackArgs ==
    {NoAxisMetadata, AxisArg(NewAxis(1))}
    \cup {SequenceArg([i \in 1..n |-> Str(AxisLabels[i])]) : n \in 0..MaxStack}
    \cup {SequenceArg(<<Str("alpha"), NotStr("1")>>), SequenceArg(<<NotStr("1")>>)}

\* stack(arrays, axis_metadata, axis) with arrays of a class whose constructor
\* checks the axes metadata, or of one whose constructor does not
Stack ==
    /\ Idle
    /\ \E arrays \in StackLists, arg \in StackArgs, axis \in -1..(MaxEns + 1),
          checks \in BOOLEAN :
        LET result == stack(arrays, arg, axis, checks)
        IN  /\ old' = arrays[1]
            /\ self' = result.self
            /\ out' = result.out
            /\ returned' = result.returned
            /\ status' = result.status
            /\ call' = [NoCall EXCEPT !.op = "stack", !.arrays = arrays, !.arg = arg,
                                      !.axis = axis, !.checks = checks]
    /\ calls' = calls + 1
    /\ UNCHANGED <<plus, applied, kept>>

StackNext == Stack

StackSpec == ZarrInit /\ [][StackNext]_vars

\* ------------------------------------------------- scanning
\* the largest number of positions of a scan along an axis
MaxPositions == 3

\* the largest number of cuts of a region into extents
MaxCuts == 1

\* the ascending sequence of the numbers in S
RECURSIVE Ascending(_)
Ascending(S) ==
    IF S = {} THEN <<>>
    ELSE LET least == CHOOSE x \in S : \A y \in S : x <= y
         IN  <<least>> \o Ascending(S \ {least})

\* the extents that tile [lo, hi) with at most k cuts
Tilings(lo, hi, k) ==
    {LET bounds == <<lo>> \o Ascending(cuts) \o <<hi>>
     IN  [j \in 1..(Len(bounds) - 1) |-> <<bounds[j], bounds[j + 1]>>] :
        cuts \in {c \in SUBSET ((lo + 1)..(hi - 1)) : Cardinality(c) <= k}}

\* the chunks of n sites: the sequences of positive sizes that sum to n
Compositions(n) == {c \in SeqsUpTo(1..n, n) : Sum(c) = n}

CustomScans ==
    {CustomScan(positions) :
        positions \in SeqsUpTo((0..2) \X (0..1), MaxPositions)}

\* a grid with its end as last point has at least two points
GridScans ==
    {GridScan(<<start, 0>>, <<g[1], ygpts>>, <<sampling, 1>>, <<g[2], FALSE>>) :
        start \in 0..1, ygpts \in 1..2, sampling \in 1..2,
        g \in {h \in (1..MaxPositions) \X BOOLEAN : h[2] => h[1] > 1}}

LineScans ==
    {LineScan(start, direction,
              sampling * (IF g[2] THEN g[1] - 1 ELSE g[1]), g[1], g[2]) :
        start \in {<<0, 0>>, <<1, 2>>}, direction \in {<<1, 0>>, <<0, 1>>},
        sampling \in 1..2,
        g \in {h \in (1..MaxPositions) \X BOOLEAN : h[2] => h[1] > 1}}

\* the extents tried with a scan: tilings of regions around its positions,
\* tilings of a region that is too short, and extents with a gap
ExtentsOf(scan) ==
    IF scan.kind = "GridScan"
    THEN LET last == scan.start[1] + (scan.gpts[1] - 1) * scan.sampling[1]
         IN  (UNION {Tilings(lo, hi, MaxCuts) :
                        lo \in {0, scan.start[1]},
                        hi \in {last + 1, scan.end[1], scan.end[1] + 1} \ {scan.start[1]}})
             \X Tilings(0, scan.end[2], MaxCuts)
    ELSE (Tilings(0, 3, MaxCuts + 1) \cup Tilings(0, 2, MaxCuts)
            \cup {<<<<0, 1>>, <<2, 3>>>>})
         \X Tilings(0, 2, MaxCuts)

\* the chunks tried with a scan
ChunksOf(scan) ==
    CASE scan.kind = "CustomScan" -> {<<c>> : c \in Compositions(Len(scan.positions))}
      [] scan.kind = "GridScan" ->
            Compositions(scan.gpts[1]) \X Compositions(scan.gpts[2])
      [] OTHER -> {<<c>> : c \in Compositions(scan.gpts)}

ScanInit ==
    /\ self = NoObject
    /\ old = self
    /\ out = NoObject
    /\ returned = "none"
    /\ status = "new"
    /\ call = NoCall
    /\ calls = 0
    /\ applied = <<>>
    /\ plus = NoPlus
    /\ root = NoContainer
    /\ written = <<>>
    /\ imported = NoImport
    /\ generators = <<>>
    /\ graph = NoTasks
    /\ partitioned = NoPartition
    /\ ctf = NoCTF
    /\ scanned \in {[NoScanned EXCEPT !.scan = scan] :
                        scan \in CustomScans \cup GridScans \cup LineScans}

\* scan.sort_into_extents(extents)
SortIntoExtents ==
    /\ scanned.op = "none"
    /\ \E extents \in ExtentsOf(scanned.scan) :
        LET result == sort_into_extents(scanned.scan, <<extents[1], extents[2]>>)
        IN  scanned' = [scanned EXCEPT !.op = "sort_into_extents",
                                       !.extents = <<extents[1], extents[2]>>,
                                       !.status = result.status,
                                       !.sorted = result.scan,
                                       !.result = result.chunks]
    /\ UNCHANGED <<plus, applied, self, old, out, returned, status, call, calls,
                   root, written, imported, generators, ctf, partitioned, graph>>

\* scan.partition_args(chunks)
PartitionArgs ==
    /\ scanned.op = "none"
    /\ \E chunks \in ChunksOf(scanned.scan) :
        scanned' = [scanned EXCEPT !.op = "partition_args",
                                   !.chunks = [i \in 1..Len(chunks) |-> chunks[i]],
                                   !.status = "ok",
                                   !.result = partition_args(scanned.scan, chunks)]
    /\ UNCHANGED <<plus, applied, self, old, out, returned, status, call, calls,
                   root, written, imported, generators, ctf, partitioned, graph>>

\* the sorted scan is partitioned into the chunks sort_into_extents returned
PartitionSorted ==
    /\ scanned.op = "sort_into_extents"
    /\ scanned.status = "ok"
    /\ scanned' = [scanned EXCEPT !.op = "partition_args",
                                  !.scan = scanned.sorted,
                                  !.chunks = scanned.result,
                                  !.result = partition_args(scanned.sorted,
                                                            scanned.result)]
    /\ UNCHANGED <<plus, applied, self, old, out, returned, status, call, calls,
                   root, written, imported, generators, ctf, partitioned, graph>>

ScanNext ==
    \/ SortIntoExtents
    \/ PartitionArgs
    \/ PartitionSorted

ScanSpec == ScanInit /\ [][ScanNext]_vars

\* ------------------------------------------------- setting CTF parameters
\* the keys tried: symbols, aliases, and names that are neither
CTFKeys == {"C10", "C30", "phi12", "defocus", "Cs", "astigmatism_angle", "c10", "focus"}

\* the dictionaries tried, as their items in order: keys are distinct
CTFParameters ==
    {items \in SeqsUpTo(CTFKeys \X (1..2), MaxItems) :
        \A i, j \in 1..Len(items) : i # j => items[i][1] # items[j][1]}

\* ctf.set_parameters(parameters, parametrization)
SetParameters ==
    /\ calls < MaxCalls
    /\ \E items \in CTFParameters, parametrization \in {"polar", "cartesian"} :
        LET result == set_parameters(ctf.parameters, items, parametrization)
        IN  ctf' = [parameters |-> result.parameters, before |-> ctf.parameters,
                    op |-> "set_parameters", items |-> items,
                    parametrization |-> parametrization, status |-> result.status]
    /\ calls' = calls + 1
    /\ UNCHANGED <<plus, applied, self, old, out, returned, status, call,
                   root, written, imported, generators, scanned, partitioned, graph>>

\* ctf.C10 = value, ctf.defocus = value: the properties the constructor
\* installs for every symbol and alias
SetProperty ==
    /\ calls < MaxCalls
    /\ \E key \in polar_symbols \cup DOMAIN polar_aliases, value \in 1..2 :
        /\ key \in CTFKeys
        /\ ctf' = [parameters |->
                        parametrization_property_setter(
                            ctf.parameters,
                            IF key \in polar_symbols THEN key ELSE polar_aliases[key],
                            value),
                   before |-> ctf.parameters, op |-> "setattr",
                   items |-> <<<<key, value>>>>, parametrization |-> "polar",
                   status |-> "ok"]
    /\ calls' = calls + 1
    /\ UNCHANGED <<plus, applied, self, old, out, returned, status, call,
                   root, written, imported, generators, scanned, partitioned, graph>>

CTFNext ==
    \/ SetParameters
    \/ SetProperty

CTFSpec == ZarrInit /\ [][CTFNext]_vars

\* ------------------------------------------------- setting axes metadata
\* the entries tried: an UnknownAxis and OrdinalAxes of one to three values
SetAxes ==
    {UnknownAxis} \cup {OrdinalAxis("set", [i \in 1..n |-> 80 + i]) : n \in 1..(MaxDim + 1)}

\* x.set_ensemble_axes_metadata(axes_metadata, axis)
SetEnsembleAxesMetadata ==
    \E r \in {self}, new \in SetAxes, axis \in -1..MaxEns :
        Calls(r, [NoCall EXCEPT !.op = "set_ensemble_axes_metadata", !.axis = axis,
                                !.axis_metadata = <<new>>],
              set_ensemble_axes_metadata(r, new, axis))

\* the calls of an object whose axes metadata is set, after a reduction or
\* before one
AxesNext ==
    \/ Continue
    \/ Reduction
    \/ SetEnsembleAxesMetadata

AxesSpec == Init /\ [][AxesNext]_vars

\* ------------------------------------------------- partitions of composites
\* the ways to cut an axis of length n into chunks
Chunkings(n) == {c \in SeqsUpTo(1..n, n) : c # <<>> /\ Sum(c) = n}

\* validated chunks of an ensemble shape: one chunking for every axis
ValidChunks(shape) ==
    {c \in [1..Len(shape) -> UNION {Chunkings(shape[i]) : i \in 1..Len(shape)}] :
        \A i \in 1..Len(shape) : c[i] \in Chunkings(shape[i])}

\* a member with the two axes tau and sigma
RankTwoMember(f) ==
    [family |-> f, ensemble_shape |-> <<MaxDim, 1>>,
     ensemble_axes_metadata |-> <<TransformAxis, SecondTransformAxis>>,
     metadata |-> EmptyDict, transforms |-> <<>>]

PartitionMember(f, k) == IF k = 4 THEN RankTwoMember(f) ELSE Member(f, k)

MaxMembers == 3

\* composites of up to MaxMembers members, a member possibly twice, and one
\* composite with a composite as a member
PartitionedComposites ==
    {CompositeArrayObjectTransform(
        [j \in 1..Len(ks) |-> PartitionMember("ArrayObjectTransform", ks[j])]) :
            ks \in SeqsUpTo(1..4, MaxMembers) \ {<<>>}}
    \cup
    {CompositeWaveTransform(
        [j \in 1..Len(ks) |-> PartitionMember("WaveTransform", ks[j])]) :
            ks \in SeqsUpTo(1..4, MaxMembers) \ {<<>>}}
    \cup
    {CompositeArrayObjectTransform(
        <<Member("ArrayObjectTransform", 2),
          CompositeArrayObjectTransform(
            <<RankTwoMember("ArrayObjectTransform"),
              Member("ArrayObjectTransform", 1)>>)>>)}

\* blocks = transform._partition_args(chunks)
PartitionComposite ==
    /\ partitioned = NoPartition
    /\ \E t \in PartitionedComposites :
        \E chunks \in ValidChunks(t.ensemble_shape) :
            partitioned' = [transform |-> t, chunks |-> chunks,
                            blocks |-> _partition_args(t, chunks),
                            args |-> <<>>, rebuilt |-> NoTransform]
    /\ UNCHANGED <<plus, applied, self, old, out, returned, status, call, calls,
                   root, written, imported, generators, scanned, ctf, graph>>

\* transform._from_partitioned_args()(*args), the arguments being one item
\* of every block
RebuildComposite ==
    /\ partitioned.transform # NoTransform
    /\ partitioned.rebuilt = NoTransform
    /\ \E b \in [1..Len(partitioned.blocks) -> 0..(MaxDim - 1)] :
        /\ \A p \in 1..Len(partitioned.blocks) :
                b[p] < Len(partitioned.blocks[p].chunks)
        /\ LET args == [p \in 1..Len(partitioned.blocks) |->
                            block_item(partitioned.blocks[p], p - 1, b[p])]
           IN  partitioned' =
                [partitioned EXCEPT
                    !.args = args,
                    !.rebuilt = call_partial(
                        _from_partitioned_args(partitioned.transform), args)]
    /\ UNCHANGED <<plus, applied, self, old, out, returned, status, call, calls,
                   root, written, imported, generators, scanned, ctf, graph>>

PartitionNext ==
    \/ PartitionComposite
    \/ RebuildComposite

PartitionSpec == ZarrInit /\ [][PartitionNext]_vars

\* ------------------------------------------------- lazy apply_transform
\* lazy receivers with two base axes of length MaxDim and up to one ensemble
\* axis of length MaxDim in front of them
LazyReceivers ==
    {[shape |-> [i \in 1..(e + 2) |-> MaxDim], base_dims |-> 2,
      eam |-> [i \in 1..e |-> OrdinalAxis("alpha", [v \in 1..MaxDim |-> v])],
      metadata |-> EmptyDict, lazy |-> TRUE] : e \in 0..1}

\* the parameters the apply of a transform declares
ApplyParameters == {{"waves"}, {"waves", "block_id"}}

\* self.apply_transform(transform) of a lazy receiver
ApplyTransformLazy ==
    /\ graph = NoTasks
    /\ \E o \in LazyReceivers,
          t \in {u \in Transforms : u.metadata = EmptyDict} \cup CompositeTransforms,
          apply_parameters \in ApplyParameters :
        \E array_chunks \in ValidChunks(o.shape),
           chunks \in ValidChunks(t.ensemble_shape) :
            graph' = [NoTasks EXCEPT
                        !.receiver = o, !.array_chunks = array_chunks,
                        !.transform = t, !.chunks = chunks,
                        !.apply_parameters = apply_parameters,
                        !.tasks = apply_transform_tasks(o, array_chunks, t, chunks)]
    /\ UNCHANGED <<plus, applied, self, old, out, returned, status, call, calls,
                   root, written, imported, generators, scanned, ctf, partitioned>>

\* the scheduler evaluates the task of one block of the graph
EvaluateBlock ==
    /\ graph.transform # NoTransform
    /\ \E key \in DOMAIN graph.tasks :
        graph' = [graph EXCEPT
                    !.key = key, !.evaluated = TRUE,
                    !.result = _apply_wave_transform(
                                    graph.tasks[key],
                                    _from_partitioned_args(graph.transform),
                                    graph.transform.ensemble_shape,
                                    graph.apply_parameters)]
    /\ UNCHANGED <<plus, applied, self, old, out, returned, status, call, calls,
                   root, written, imported, generators, scanned, ctf, partitioned>>

BlockNext ==
    \/ ApplyTransformLazy
    \/ EvaluateBlock

BlockSpec == ZarrInit /\ [][BlockNext]_vars

\* ------------------------------------------------- properties
\* len(shape) == len(ensemble_axes_metadata) + base_dims
WellFormed(o) == Len(o.shape) = Len(o.eam) + o.base_dims

\* the calls made through _reduction, get_items, expand_dims, squeeze and
\* apply_transform
ShapeOps == {"_reduction", "get_items", "expand_dims", "squeeze", "apply_transform"}

\* C1: every object returned by a sequence of get_items, _reduction,
\* expand_dims, squeeze and apply_transform calls that starts from an object
\* with len(shape) = len(ensemble_axes_metadata) + base_dims satisfies that
\* equation as well.
C1_ShapeInvariant ==
    (status = "ok" /\ call.op \in ShapeOps) => WellFormed(out)

\* the positions of the array a reduction call asks for, a negative axis
\* counted from the last dimension
RequestedPositions == {NormAxis(call.axes[i], Len(old.shape)) : i \in 1..Len(call.axes)}

\* C2: a reduction over axes of which one, given as a non-negative or as a
\* negative index, is the position of a base axis raises RuntimeError.
C2_BaseAxisReductionRaises ==
    (/\ call.op = "_reduction"
     /\ WellFormed(old)
     /\ \E p \in RequestedPositions :
            p >= Len(ensemble_shape(old)) /\ p < Len(old.shape))
        => status = "RuntimeError"

\* C3: a reduction over one ensemble axis k, 0 <= k < len(ensemble_shape),
\* succeeds; with keepdims the result has the rank and the ensemble axes
\* metadata of the input, without keepdims its ensemble axes metadata is the
\* input's list without the entry at k.
C3_EnsembleAxisReduction ==
    (/\ call.op = "_reduction"
     /\ WellFormed(old)
     /\ Len(call.axes) = 1
     /\ call.axes[1] \in 0..(Len(ensemble_shape(old)) - 1))
        => /\ status = "ok"
           /\ call.keepdims =>
                (Len(out.shape) = Len(old.shape) /\ out.eam = old.eam)
           /\ ~call.keepdims =>
                out.eam = Without(old.eam, {call.axes[1]}, 0)

\* the number of integer items among items[1..n]
RECURSIVE IntCount(_, _)
IntCount(items, n) ==
    IF n = 0 THEN 0
    ELSE IntCount(items, n - 1) + (IF items[n].kind = "int" THEN 1 ELSE 0)

HasKind(items, kind) == \E i \in 1..Len(items) : items[i].kind = kind

\* the item metadata of the axes indexed by the integer items among
\* items[1..n], each taken at the index the item selects; the items hold no
\* None, so item n addresses axis n
RECURSIVE selected_metadata(_, _, _)
selected_metadata(eam, items, n) ==
    IF n = 0 THEN EmptyDict
    ELSE IF items[n].kind = "int"
    THEN DictMerge(selected_metadata(eam, items, n - 1),
                   item_metadata(eam[n], items[n].i))
    ELSE selected_metadata(eam, items, n - 1)

\* C4: get_items with integers in a tuple of integers and slices, without
\* keepdims, removes the axes indexed by an integer and merges into the
\* metadata of the input, for each of them, the item metadata of that axis at
\* the selected index.
C4_IntegerIndexFoldsSelectedValue ==
    (/\ call.op = "get_items"
     /\ status = "ok"
     /\ ~call.keepdims
     /\ WellFormed(old)
     /\ ~HasKind(call.items, "None"))
        => /\ Len(out.eam) = Len(old.eam) - IntCount(call.items, Len(call.items))
           /\ out.metadata =
                DictMerge(old.metadata,
                          selected_metadata(old.eam, call.items, Len(call.items)))

\* an axis re-sliced like the plain sequence of its values
Resliced(axis, item) ==
    IF axis.kind = "OrdinalAxis"
    THEN [axis EXCEPT !.values = PySlice(@, item.start, item.stop)]
    ELSE axis

\* the axes metadata the items from the i-th on yield, axis k being the next
\* input axis to address, followed by the input axes left over
RECURSIVE indexed_axes(_, _, _, _)
indexed_axes(eam, items, i, k) ==
    IF i > Len(items) THEN Drop(eam, k - 1)
    ELSE CASE items[i].kind = "None" ->
                <<UnknownAxis>> \o indexed_axes(eam, items, i + 1, k)
           [] items[i].kind = "int" -> indexed_axes(eam, items, i + 1, k + 1)
           [] OTHER ->
                <<Resliced(eam[k], items[i])>> \o indexed_axes(eam, items, i + 1, k + 1)

\* C5: get_items with a tuple yields, in order, the input axis re-sliced for
\* each slice item, an UnknownAxis for each None item, nothing for each
\* integer item, and then the input axes the tuple does not address.
C5_TupleIndexAxesMetadata ==
    (/\ call.op = "get_items"
     /\ status = "ok"
     /\ ~call.keepdims
     /\ WellFormed(old))
        => out.eam = indexed_axes(old.eam, call.items, 1, 1)

\* a None item, a slice item that drops the first value of an ordinal axis of
\* two values, and an axis left over
C5_Witness ==
    /\ call.op = "get_items"
    /\ status = "ok"
    /\ ~call.keepdims
    /\ WellFormed(old)
    /\ call.items = <<NoneItem, SliceItem(<<1>>, <<>>)>>
    /\ Len(old.eam) = 2
    /\ old.eam[1] = OrdinalAxis("alpha", <<11, 12>>)
    /\ out.eam = <<UnknownAxis, OrdinalAxis("alpha", <<12>>), old.eam[2]>>

\* the exceptions that are a RuntimeError: NotImplementedError is a subclass
RuntimeErrors == {"RuntimeError", "NotImplementedError"}

\* C6: an index tuple with more items that are not None than there are
\* ensemble axes raises a RuntimeError, with and without keepdims, and no
\* object is returned: NotImplementedError, a RuntimeError, when the tuple
\* holds an Ellipsis, and RuntimeError itself otherwise.
C6_TooManyIndicesRaises ==
    (/\ call.op = "get_items"
     /\ NotNoneCount(call.items, Len(call.items)) > Len(ensemble_shape(old)))
        => /\ status \in RuntimeErrors
           /\ status = (IF HasKind(call.items, "Ellipsis")
                        THEN "NotImplementedError" ELSE "RuntimeError")
           /\ returned = "none"

\* two integers given with keepdims to an object with one ensemble axis
C6_Witness ==
    /\ call.op = "get_items"
    /\ call.keepdims
    /\ call.items = <<IntItem(0), IntItem(0)>>
    /\ Len(ensemble_shape(old)) = 1
    /\ WellFormed(old)
    /\ status = "RuntimeError"

\* C7: get_items with keepdims and valid integer indices drops no axis and
\* leaves every indexed axis with length one.
C7_KeepdimsLengthOne ==
    (/\ call.op = "get_items"
     /\ call.keepdims
     /\ WellFormed(old)
     /\ Len(call.items) <= Len(ensemble_shape(old))
     /\ \A i \in 1..Len(call.items) :
            /\ call.items[i].kind = "int"
            /\ call.items[i].i >= -old.shape[i]
            /\ call.items[i].i < old.shape[i])
        => /\ status = "ok"
           /\ Len(out.eam) = Len(old.eam)
           /\ \A i \in 1..Len(call.items) : out.shape[i] = 1

\* the metadata expand_dims is to place at the i-th requested position
Supplied(i) == IF call.none THEN UnknownAxis ELSE call.axis_metadata[i]

\* C8: expand_dims at distinct non-negative positions raises RuntimeError
\* when a position lies outside the ensemble region of the result; otherwise
\* the result has one more dimension per position, a length-one axis with
\* the supplied metadata at each position, and the input axes in their order.
C8_ExpandDimsPlacesAxes ==
    (/\ call.op = "expand_dims"
     /\ WellFormed(old)
     /\ \A i \in 1..Len(call.axes) : call.axes[i] >= 0
     /\ Cardinality(Elems(call.axes)) = Len(call.axes))
        => IF \E i \in 1..Len(call.axes) :
                call.axes[i] >= Len(ensemble_shape(old)) + Len(call.axes)
           THEN status = "RuntimeError"
           ELSE /\ status = "ok"
                /\ Len(out.shape) = Len(old.shape) + Len(call.axes)
                /\ Len(out.eam) = Len(old.eam) + Len(call.axes)
                /\ \A i \in 1..Len(call.axes) :
                        /\ out.shape[call.axes[i] + 1] = 1
                        /\ out.eam[call.axes[i] + 1] = Supplied(i)
                /\ Without(out.eam, Elems(call.axes), 0) = old.eam

\* the positions a squeeze call asks for, a negative axis counted from the
\* last dimension
SqueezePositions ==
    IF call.none THEN 0..(Len(old.shape) - 1)
    ELSE {NormAxis(call.axes[i], Len(old.shape)) : i \in 1..Len(call.axes)}

\* the ensemble axes of length one among the positions asked for
SqueezedAxes ==
    {i \in 0..(Len(ensemble_shape(old)) - 1) :
        old.shape[i + 1] = 1 /\ i \in SqueezePositions}

\* C9: squeeze removes the ensemble axes of length one among the requested
\* positions, with their metadata entries, and nothing else; the base shape
\* is unchanged, also when a base axis has length one.
C9_SqueezeEnsembleOnly ==
    (call.op = "squeeze" /\ WellFormed(old))
        => /\ status = "ok"
           /\ out.shape = Without(old.shape, SqueezedAxes, 0)
           /\ out.eam = Without(old.eam, SqueezedAxes, 0)
           /\ out.base_dims = old.base_dims
           /\ base_shape(out) = base_shape(old)

\* squeeze of every axis of an object with an ensemble axis and a base axis
\* of length one: the ensemble axis goes, the base axis stays
C9_Witness ==
    /\ call.op = "squeeze"
    /\ call.none
    /\ WellFormed(old)
    /\ old.shape = <<1, MaxDim, 1, MaxDim>>
    /\ old.base_dims = 2
    /\ out.shape = <<MaxDim, 1, MaxDim>>
    /\ Len(out.eam) = 1

\* the calls that are to leave their receiver as it is
ValueOps ==
    {"get_items", "_reduction", "expand_dims", "squeeze", "ensure_lazy",
     "_arithmetic", "apply_transform"}

DiffersAsClaimed ==
    \/ ~call.other.isinstance
    \/ call.other.obj.shape # old.shape
    \/ call.other.obj.eam # old.eam
    \/ call.other.obj.metadata # old.metadata

\* the result has the non-array fields of the receiver
ReceiverFields ==
    /\ status = "ok"
    /\ returned = "new"
    /\ out.eam = old.eam
    /\ out.metadata = old.metadata
    /\ out.base_dims = old.base_dims
    /\ out.shape = old.shape

C12_InPlaceLazyRaises ==
    (/\ call.op = "_in_place_arithmetic"
     /\ old.lazy \/ (call.other.has_array /\ call.other.obj.lazy))
        => (status = "RuntimeError" /\ returned = "none")

\* C13: ensure_lazy on a lazy object and compute on an eager object return
\* the object itself, unchanged; ensure_lazy on an eager object returns a new
\* lazy object and leaves the receiver eager; compute on a lazy object makes
\* the object itself eager and returns it; shape, ensemble axes metadata and
\* metadata are the same after either call.
C13_LazinessTransitions ==
    /\ (call.op = "ensure_lazy" /\ old.lazy) =>
            (status = "ok" /\ returned = "self" /\ out = old /\ self = old)
    /\ (call.op = "compute" /\ ~old.lazy) =>
            (status = "ok" /\ returned = "self" /\ out = old /\ self = old)
    /\ (call.op = "ensure_lazy" /\ ~old.lazy) =>
            /\ status = "ok" /\ returned = "new"
            /\ self = old
            /\ out = [old EXCEPT !.lazy = TRUE]
    /\ (call.op = "compute" /\ old.lazy) =>
            /\ status = "ok"
            /\ returned = (IF call.profilers THEN "self_and_profilers" ELSE "self")
            /\ out = self
            /\ self = [old EXCEPT !.lazy = FALSE]

\* compute on a lazy object with an ensemble axis: the object is eager
\* afterwards and is what the call returned
C13_Witness ==
    /\ call.op = "compute"
    /\ old.lazy
    /\ Len(old.eam) > 0
    /\ returned = "self"
    /\ ~self.lazy
    /\ out = self
    /\ self.eam = old.eam

\* C14: the object a transform yields, applied to an eager or a lazy object,
\* has the ensemble axes metadata of the transform followed by those of the
\* input, and the shape transform ensemble shape + input ensemble shape +
\* base shape.
C14_TransformAxesPrepended ==
    (call.op = "apply_transform" /\ status = "ok" /\ WellFormed(old))
        => /\ out.eam = call.transform.ensemble_axes_metadata \o old.eam
           /\ out.shape = call.transform.ensemble_shape \o ensemble_shape(old)
                            \o base_shape(old)

\* C15: the metadata of the transformed object is the metadata of the input
\* overridden by the metadata of the transform, on the eager path and on the
\* lazy path alike.
C15_TransformMetadataMerged ==
    (call.op = "apply_transform" /\ status = "ok")
        => out.metadata = DictMerge(old.metadata, call.transform.metadata)

\* the call applied a composite to an eager object
CompositeApplied ==
    /\ call.op = "apply_transform"
    /\ is_composite(call.transform)
    /\ ~old.lazy
    /\ status = "ok"

\* C16: a composite applies its members in forward order: member 0 to the
\* input, and each following member to the output of the one before it.
C16_CompositeForwardOrder ==
    CompositeApplied
        => /\ Len(applied) = Len(call.transform.transforms)
           /\ \A i \in 1..Len(applied) :
                /\ applied[i].member = call.transform.transforms[i]
                /\ applied[i].input = (IF i = 1 THEN old ELSE applied[i - 1].output)

\* what applying the second member to the result of the first gives
Sequential ==
    member_apply(call.transform.transforms[2],
                 member_apply(call.transform.transforms[1], old).out).out

\* C17: the ensemble shape of a composite of A and B is that of A followed
\* by that of B, and the composite gives the array shape and the ensemble
\* axes metadata, in the same order, that B.apply(A.apply(x)) gives.
C17_CompositeEqualsSequential ==
    (CompositeApplied /\ WellFormed(old) /\ Len(call.transform.transforms) = 2)
        => /\ call.transform.ensemble_shape =
                call.transform.transforms[1].ensemble_shape
                    \o call.transform.transforms[2].ensemble_shape
           /\ out.shape = Sequential.shape
           /\ out.eam = Sequential.eam

\* the members of a sequence of transforms with every composite among them
\* replaced by its own flat members
RECURSIVE flat_sequence(_)
flat_sequence(ts) ==
    IF ts = <<>> THEN <<>>
    ELSE (IF is_composite(Head(ts)) THEN flat_sequence(Head(ts).transforms)
          ELSE <<Head(ts)>>) \o flat_sequence(Tail(ts))

\* what a + b and (a + b) + c are to be: a composite of the flat members of
\* the operands in their order, none of them a composite, the operands left
\* as they were, and (a + b) + c with the members of a + (b + c)
SumIsFlat ==
    /\ is_composite(plus.result)
    /\ plus.result.transforms = flat_sequence(plus.operands)
    /\ \A i \in 1..Len(plus.result.transforms) :
            ~is_composite(plus.result.transforms[i])
    /\ plus.after = plus.operands
    /\ Len(plus.operands) = 3 =>
            plus.result.transforms =
                __add__(plus.operands[1],
                        __add__(plus.operands[2], plus.operands[3]).composite
                       ).composite.transforms

\* C18 as claimed: for any transforms or composites a and b, a + b is a
\* composite of the flat members of a followed by those of b, without a
\* composite among its members, a and b are not modified, and (a + b) + c
\* has the member sequence of a + (b + c).
C18_AddAnyOperands ==
    plus # NoPlus => SumIsFlat

\* no member of an operand is a composite
OperandsFlat ==
    \A i \in 1..Len(plus.operands) :
        \A k \in 1..Len(plus.operands[i].transforms) :
            ~is_composite(plus.operands[i].transforms[k])

\* C18 amended: the same for operands none of whose members is a composite,
\* as is every composite that + returns.
C18_AddFlattens ==
    (plus # NoPlus /\ OperandsFlat) => SumIsFlat

\* a composite plus a transform plus a composite gives five members
C18_Witness ==
    /\ Len(plus.operands) = 3
    /\ OperandsFlat
    /\ is_composite(plus.operands[1])
    /\ ~is_composite(plus.operands[2])
    /\ is_composite(plus.operands[3])
    /\ Len(plus.result.transforms) = 5
    /\ plus.result.transforms = plus.operands[1].transforms
            \o <<plus.operands[2]>> \o plus.operands[3].transforms

\* every object of the list is in the container under its position
Stored ==
    /\ \A i \in 0..(Len(written) - 1) :
        /\ <<"array", i>> \in DOMAIN root.arrays
        /\ <<"kwargs", i>> \in DOMAIN root.attrs
        /\ <<"type", i>> \in DOMAIN root.attrs
    /\ <<"type", Len(written)>> \notin DOMAIN root.attrs

\* the objects imported are the objects written, in their order
ReadBack ==
    /\ status = "ok"
    /\ Len(imported.objects) = Len(written)
    /\ imported.bare = (Len(written) = 1)
    /\ \A i \in 1..Len(imported.objects) :
        /\ imported.objects[i].cls = root.attrs[<<"type", i - 1>>]
        /\ imported.objects[i].cls = written[i].cls
        /\ imported.objects[i].eam = written[i].eam
        /\ imported.objects[i].shape = written[i].shape

\* C19: writing a list of N objects stores array{i}, kwargs{i} and type{i} for
\* every i in 0..N-1, and from_zarr on that container returns N objects in the
\* stored order (the bare object when N = 1), each with the class named by
\* type{i} and the ensemble axes metadata and shape of the object written
C19_ZarrRoundTrip ==
    /\ call.op = "to_zarr" => Stored
    /\ call.op = "from_zarr" => (Stored /\ ReadBack)

\* the product of the lengths in shape
RECURSIVE prod(_)
prod(shape) == IF shape = <<>> THEN 1 ELSE Head(shape) * prod(Tail(shape))

\* the row-major position of index in shape, counted from 0
RECURSIVE ravel(_, _)
ravel(index, shape) ==
    IF index = <<>> THEN 0
    ELSE ravel(Take(index, Len(index) - 1), Take(shape, Len(shape) - 1))
            * shape[Len(shape)] + index[Len(index)]

\* C20: generate_ensemble ends after yielding exactly prod(ensemble_shape)
\* pairs (index, member), one for every index tuple of the ensemble shape,
\* each once and in row-major order; every call starts again from the first
\* index; with keepdims=False every member has no ensemble axes and the shape
\* base_shape
C20_GenerateEnsemble ==
    \A g \in 1..Len(generators) :
        LET gen == generators[g]
            shape == ensemble_shape(gen.self)
        IN  /\ gen.status \in {"suspended", "StopIteration"}
            /\ Len(gen.yielded) + Len(gen.it) = prod(shape)
            /\ gen.status = "StopIteration" => Len(gen.yielded) = prod(shape)
            /\ \A k \in 1..Len(gen.yielded) :
                LET pair == gen.yielded[k]
                IN  /\ Len(pair.index) = Len(shape)
                    /\ \A j \in 1..Len(shape) :
                        pair.index[j] >= 0 /\ pair.index[j] < shape[j]
                    /\ ravel(pair.index, shape) = k - 1
                    /\ ~gen.keepdims =>
                        /\ pair.member.eam = <<>>
                        /\ pair.member.shape = base_shape(gen.self)

\* a generator over a 2 x 2 ensemble has ended after four members while a
\* second generator of the same object has yielded its first
C20_Witness ==
    /\ Len(generators) = 2
    /\ ensemble_shape(self) = <<MaxDim, MaxDim>>
    /\ generators[1].status = "StopIteration"
    /\ ~generators[1].keepdims
    /\ Len(generators[1].yielded) = MaxDim * MaxDim
    /\ Len(generators[2].yielded) = 1
    /\ generators[2].yielded[1].index = <<0, 0>>

\* stack was called with arrays of one shape and an axis in
\* 0..len(ensemble_shape)
StackCalled ==
    /\ call.op = "stack"
    /\ \A i \in 1..Len(call.arrays) : call.arrays[i].shape = call.arrays[1].shape
    /\ call.axis >= 0
    /\ call.axis <= Len(ensemble_shape(call.arrays[1]))

AllStrings == \A i \in 1..Len(call.arg.elements) : call.arg.elements[i].str

\* the object stack returned has the shape of the inputs with their number
\* inserted at the axis and the first input's axes metadata with the new
\* entry at the axis
Stacked(new) ==
    /\ status = "ok"
    /\ out.shape = Take(call.arrays[1].shape, call.axis) \o <<Len(call.arrays)>>
                   \o Drop(call.arrays[1].shape, call.axis)
    /\ out.eam = Take(call.arrays[1].eam, call.axis) \o <<new>>
                 \o Drop(call.arrays[1].eam, call.axis)

GivenValues == [i \in 1..Len(call.arg.elements) |-> call.arg.elements[i].v]

AxisPositions(scan, i) ==
    IF scan.kind = "GridScan"
    THEN linspace(scan.start[i], scan.sampling[i], scan.gpts[i])
    ELSE [k \in 1..Len(scan.positions) |-> scan.positions[k][i]]

\* the extents of every axis are half-open intervals, each beginning where
\* the one before ends, and the region they tile holds every scan position
TilesAll ==
    \A i \in 1..2 :
        LET e == scanned.extents[i]
        IN  /\ \A j \in 1..Len(e) : e[j][1] < e[j][2]
            /\ \A j \in 1..(Len(e) - 1) : e[j][2] = e[j + 1][1]
            /\ \A k \in 1..Len(AxisPositions(scanned.scan, i)) :
                /\ e[1][1] <= AxisPositions(scanned.scan, i)[k]
                /\ AxisPositions(scanned.scan, i)[k] < e[Len(e)][2]

\* C22: for a CustomScan and a GridScan, when the extents tile a region that
\* holds every scan position, sort_into_extents returns without an assertion
\* failure and the counts it returns sum to the number of positions (per axis
\* for a GridScan)
C22_SortIntoExtentsComplete ==
    (/\ scanned.op = "sort_into_extents"
     /\ scanned.scan.kind \in {"CustomScan", "GridScan"}
     /\ TilesAll) =>
        /\ scanned.status = "ok"
        /\ scanned.scan.kind = "CustomScan" =>
                Sum(scanned.result[1]) = Len(scanned.scan.positions)
        /\ scanned.scan.kind = "GridScan" =>
                \A i \in 1..2 : Sum(scanned.result[i]) = scanned.scan.gpts[i]

\* the number of sites before chunk j
SitesBefore(chunks, j) == Sum(Take(chunks, j - 1))

RECURSIVE Concatenated(_)
Concatenated(s) == IF s = <<>> THEN <<>> ELSE Head(s) \o Concatenated(Tail(s))

\* the blocks of a grid or line axis: block j has gpts = c_j, begins at the
\* site after those of the blocks before it and where block j - 1 ends, and
\* keeps the step of the scan
BlocksContiguous(blocks, chunks, start, sampling) ==
    /\ Len(blocks) = Len(chunks)
    /\ \A j \in 1..Len(blocks) :
        /\ blocks[j].gpts = chunks[j]
        /\ blocks[j].start = start + SitesBefore(chunks, j) * sampling
        /\ blocks[j].end = blocks[j].start + chunks[j] * sampling
        /\ j > 1 => blocks[j].start = blocks[j - 1].end

Recognized(key) == key \in polar_symbols \/ key \in DOMAIN polar_aliases

\* the symbol a recognized key stands for
SymbolOf(key) == IF key \in polar_symbols THEN key ELSE polar_aliases[key]

\* the value of symbol after the items were set in turn on table
RECURSIVE ValueAfter(_, _, _)
ValueAfter(table, items, symbol) ==
    IF items = <<>> THEN table[symbol]
    ELSE LET last == items[Len(items)]
         IN  IF SymbolOf(last[1]) = symbol THEN last[2]
             ELSE ValueAfter(table, Take(items, Len(items) - 1), symbol)

\* C24: set_parameters raises RuntimeError for a key that is neither a polar
\* symbol nor an alias; otherwise a symbol key sets the value of the symbol
\* and an alias key the value of the symbol it stands for; after any calls the
\* keys of the parameter table are exactly the polar symbols
C24_SetParameters ==
    /\ DOMAIN ctf.parameters = polar_symbols
    /\ (ctf.op = "set_parameters" /\ ctf.parametrization = "polar") =>
            IF \E i \in 1..Len(ctf.items) : ~Recognized(ctf.items[i][1])
            THEN ctf.status = "RuntimeError"
            ELSE /\ ctf.status = "ok"
                 /\ \A symbol \in polar_symbols :
                        ctf.parameters[symbol] =
                            ValueAfter(ctf.before, ctf.items, symbol)

\* a call with a symbol and an alias of another symbol, after an earlier call
\* that raised on an unknown key
C24_Witness ==
    /\ ctf.op = "set_parameters"
    /\ ctf.status = "ok"
    /\ ctf.items = <<<<"Cs", 2>>, <<"C10", 1>>>>
    /\ ctf.parameters["C30"] = 2
    /\ ctf.parameters["C10"] = 1
    /\ ctf.before["phi12"] = 2

\* set_ensemble_axes_metadata was called with an axis the list has
SetCalled ==
    /\ call.op = "set_ensemble_axes_metadata"
    /\ call.axis < Len(old.eam)
    /\ call.axis >= -Len(old.eam)

\* the entries of the object's axes metadata that stand at an array dimension
\* and are OrdinalAxes with another number of values than the dimension is long
Mismatched(o) ==
    {k \in 1..Min(Len(o.shape), Len(axes_metadata(o))) :
        /\ axes_metadata(o)[k].kind = "OrdinalAxis"
        /\ Len(axes_metadata(o)[k].values) # o.shape[k]}

\* C25: set_ensemble_axes_metadata raises RuntimeError when, with the new
\* entry installed, some OrdinalAxis of the object has a value count other
\* than the length of its array dimension; when the call returns normally
\* every OrdinalAxis has the length of its dimension
C25_SetAxesChecked ==
    SetCalled =>
        LET installed ==
                [old EXCEPT !.eam[NormAxis(call.axis, Len(old.eam)) + 1] =
                                call.axis_metadata[1]]
        IN  /\ Mismatched(installed) # {} => status = "RuntimeError"
            /\ status = "ok" =>
                /\ Mismatched(self) = {}
                /\ returned = "self"
                /\ self.eam = installed.eam

\* an entry of two values is set, and accepted, where the first call was
\* refused an entry of three
C25_Witness ==
    /\ SetCalled
    /\ calls = 2
    /\ status = "ok"
    /\ old.shape[1] = MaxDim
    /\ Len(old.eam[1].values) = MaxDim + 1
    /\ call.axis = 0
    /\ Len(self.eam[1].values) = MaxDim
    /\ self.eam[1].label = "set"

\* C26: _check_axes_metadata raises RuntimeError whenever the number of array
\* dimensions differs from the number of axis metadata items (ensemble plus
\* base) of the object
C26_DimensionCountChecked ==
    (SetCalled /\ Len(self.shape) # Len(self.eam) + self.base_dims) =>
        status = "RuntimeError"

\* C30: when set_ensemble_axes_metadata raises because the new entry fails the
\* axes check, the ensemble axes metadata of the object is as before the call
C30_FailedSetHasNoEffect ==
    (SetCalled /\ status = "RuntimeError") => self.eam = old.eam

\* the number of ensemble axes of the members before member j
RankBefore(transforms, j) == Len(chain_ensemble_shape(SubSeq(transforms, 1, j - 1)))

\* the positions of the partition arguments of member j
MemberPositions(transforms, j) ==
    RankBefore(transforms, j)..(RankBefore(transforms, j)
                                    + Len(transforms[j].ensemble_shape) - 1)

\* the blocks a member produces by itself from the chunk entries at its positions
OwnBlocks(transforms, chunks, j) ==
    _partition_args(transforms[j],
                    [k \in 1..Len(transforms[j].ensemble_shape) |->
                        chunks[RankBefore(transforms, j) + k]])

\* C28: for a composite whose members have ensemble ranks r_0..r_{m-1},
\* _partition_args returns r_0+...+r_{m-1} blocks ordered by member, member j
\* being given the chunk entries at the positions from r_0+...+r_{j-1} up to
\* r_0+...+r_j; the function of _from_partitioned_args passes to member j's
\* reconstructor the arguments at those positions, so that every argument is
\* consumed by exactly one member, the one that produced it, and the rebuilt
\* composite has the same members in the same order
C28_CompositePartition ==
    partitioned.transform # NoTransform =>
        LET t == partitioned.transform
            ts == t.transforms
            blocks == partitioned.blocks
        IN  /\ Len(blocks) = Len(t.ensemble_shape)
            /\ \A j \in 1..Len(ts) :
                \A k \in 1..Len(ts[j].ensemble_shape) :
                    blocks[RankBefore(ts, j) + k]
                        = OwnBlocks(ts, partitioned.chunks, j)[k]
            /\ partitioned.rebuilt # NoTransform =>
                LET rebuilt == partitioned.rebuilt
                IN  /\ rebuilt.family = t.family
                    /\ Len(rebuilt.transforms) = Len(ts)
                    /\ \A j \in 1..Len(ts) :
                        /\ rebuilt.transforms[j].of = ts[j]
                        /\ rebuilt.transforms[j].args
                            = [k \in 1..Len(ts[j].ensemble_shape) |->
                                partitioned.args[RankBefore(ts, j) + k]]
                    /\ \A p \in 1..Len(partitioned.args) :
                        Cardinality(
                            {j \in 1..Len(ts) :
                                \E k \in 1..Len(rebuilt.transforms[j].args) :
                                    rebuilt.transforms[j].args[k].position = p - 1})
                            = 1

\* a composite of three members, two of them the same and one of rank two, was
\* partitioned into more than one chunk and rebuilt from the second items
C28_Witness ==
    /\ partitioned.rebuilt # NoTransform
    /\ Len(partitioned.transform.transforms) = 3
    /\ partitioned.transform.transforms[1] = partitioned.transform.transforms[3]
    /\ Len(partitioned.transform.transforms[2].ensemble_shape) = 2
    /\ \E p \in 1..Len(partitioned.args) : partitioned.args[p].slice = 1

\* the index of the array block a task of the graph works on
ArrayIndexOf(key) ==
    SubSeq(key, Len(graph.transform.ensemble_shape) + 1, Len(key))

\* the block grid of the receiver's array
BlockGrid == [i \in 1..Len(graph.array_chunks) |-> Len(graph.array_chunks[i])]

\* the arguments a task is expected to get: one item of every partition
\* argument of the transform, the axes metadata of the chunk, the chunk, and
\* the id of the chunk's block
ExpectedTransformArgs(key) ==
    LET partition == _partition_args(graph.transform, graph.chunks)
    IN  [j \in 1..Len(graph.transform.ensemble_shape) |->
            block_item(partition[j], j - 1, key[j])]

ExpectedAxes(key) ==
    [i \in 1..Len(graph.receiver.eam) |->
        [axis |-> graph.receiver.eam[i], slice |-> ArrayIndexOf(key)[i]]]

\* C27: in the lazy path of apply_transform every array block is evaluated
\* with the block_id of its own block, the ids being the row-major positions
\* in the block grid, pairwise distinct over the array blocks and covering
\* 0..B-1; the per-chunk function rebuilds the transform from the leading
\* len(transform.ensemble_shape) arguments, wraps the chunk, the second-to-last
\* argument, with the axes metadata arguments in between, and passes block_id
\* to apply exactly if apply declares a block_id parameter
C27_BlockIds ==
    graph.transform # NoTransform =>
        LET tasks == graph.tasks
            last(key) == tasks[key][Len(tasks[key])]
            chunk(key) == tasks[key][Len(tasks[key]) - 1]
            B == prod(BlockGrid)
        IN  /\ \A key \in DOMAIN tasks :
                /\ chunk(key).kind = "array"
                /\ chunk(key).index = ArrayIndexOf(key)
                /\ last(key).kind = "block_id"
                /\ last(key).item = ravel(ArrayIndexOf(key), BlockGrid)
            /\ \A index \in Elems(ndindex(BlockGrid)) :
                \E key \in DOMAIN tasks : chunk(key).index = index
            /\ \A k1, k2 \in DOMAIN tasks :
                (last(k1).item = last(k2).item) <=> (chunk(k1).index = chunk(k2).index)
            /\ {last(key).item : key \in DOMAIN tasks} = 0..(B - 1)
            /\ graph.evaluated =>
                LET key == graph.key
                    result == graph.result
                IN  /\ result.transform
                            = call_partial(_from_partitioned_args(graph.transform),
                                           ExpectedTransformArgs(key))
                    /\ result.waves.array = chunk(key)
                    /\ result.waves.ensemble_axes_metadata = ExpectedAxes(key)
                    /\ ("block_id" \in DOMAIN result.kwargs)
                            <=> ("block_id" \in graph.apply_parameters)
                    /\ "block_id" \in DOMAIN result.kwargs =>
                            result.kwargs["block_id"]
                                = ravel(ArrayIndexOf(key), BlockGrid)

\* a block that is neither first in its row nor in its column, of an array
\* with an ensemble axis, was evaluated by a composite with an ensemble axis
\* cut in two whose apply declares block_id
C27_Witness ==
    /\ graph.evaluated
    /\ "block_id" \in graph.apply_parameters
    /\ Len(graph.transform.transforms) = 2
    /\ Len(graph.receiver.eam) = 1
    /\ \E j \in 1..Len(graph.chunks) : Len(graph.chunks[j]) = 2
    /\ BlockGrid = <<2, 1, 2>>
    /\ ArrayIndexOf(graph.key) = <<1, 0, 1>>
    /\ graph.result.kwargs["block_id"] = 3

\* C29: from_zarr with chunks="auto" on a container of several objects loads
\* every object with the chunk scheme of its own number of ensemble axes and
\* its own class's base axes ("auto" for every ensemble axis, one chunk for
\* every base axis), whatever was loaded before it
C29_AutoChunksPerObject ==
    (call.op = "from_zarr" /\ call.chunks = AutoChunks) =>
        /\ status = "ok"
        /\ Len(imported.chunks) = Len(written)
        /\ \A i \in 1..Len(written) :
            imported.chunks[i]
                = auto_chunks(Len(written[i].eam), abtem_class(written[i].cls))

====
